---- MODULE Spec2Model ----
(***************************************************************************)
(* A model of the agent supervisor of robbiemu/original_gangster:          *)
(*   - the session store (src/agent/session.py),                           *)
(*   - the audit + approval proxy that wraps every tool call               *)
(*     (src/agent/agents/executor/create_audited_sessioned_proxy.py),      *)
(*   - the orchestrator: initial-plan path, resume path and command loop   *)
(*     (src/agent/orchestrator/).                                          *)
(* One process run handles one session; a later run with the same          *)
(* session_hash restores the session from the store.  The planner, the     *)
(* auditor, the executor, the underlying tools and the front-end are the   *)
(* environment: their answers are chosen nondeterministically.             *)
(***************************************************************************)
EXTENDS Integers, Sequences, FiniteSets, TLC

\* ----------------------------------------------------------------- bounds
\* Tool calls the executor issues over the lifetime of one session.
MaxCalls == 2
\* Characters of the value the auditor writes after "# SAFE:".
MaxVal == 5
\* Bytes of a tool's output.
MaxOut == 2
\* The largest output threshold a process is started with.
MaxThreshold == 1

\* Lines the front end writes to standard input in one run.
MaxLines == 2
\* Records the emitter is made to write in one process.
MaxEmits == 2
\* Process runs (the first one and the resumes) of one session.
MaxRuns == 2
\* The largest cursor index of the session states the store is tried on.
MaxIdx == 2
\* The longest planner text the parser is tried on, in symbols.
MaxText == 5
\* Mutator calls made by the processes that share one session_hash.
MaxWrites == 3

\* ------------------------------------------------------- optional values
\* Python's None / a present value.
None == <<>>
Some(x) == <<x>>

\* ------------------------------------------------------------ the inputs
ToolNames == {"shell_tool", "file_content_tool"}

\* Surrounding whitespace of a command line is modelled by one padded
\* variant of each command: str.strip() maps " a" to "a".
strip(x) ==
    CASE x = " a" -> "a"
      [] x = " b" -> "b"
      [] OTHER -> x

\* The tool calls the executor issues: the proxy called and the action
\* string passed as its `command` / `path`.
ToolCalls ==
    { <<"shell_tool", "a">>, <<"shell_tool", " b">>, <<"file_content_tool", "a">> }

\* A recipe step as parse_plan builds it; `action` is the step's multi-line
\* command block, held as the sequence of its newline-separated lines.
RecipeStep(lines) == [tool |-> "shell_tool", action |-> lines]

\* The plans the planner's text parses to (parse_plan never returns a
\* fallback, and trims every block: only inner lines keep their padding).
Recipes ==
    { <<RecipeStep(<<"a">>)>>,
      <<RecipeStep(<<"a", " b">>)>>,
      <<RecipeStep(<<"a">>), RecipeStep(<<"b", " a">>)>>,
      <<RecipeStep(<<"a">>), RecipeStep(<<"b", " a">>), RecipeStep(<<"a">>)>> }

\* Lines the front-end writes to stdin while the command loop reads.
CommandLines ==
    { "EOF", "badjson", "execute_recipe", "execute_single_action",
      "execute_fallback", "user_approval_response", "deny_current_action",
      "unknown" }

ExecuteCommands == {"execute_recipe", "execute_single_action", "execute_fallback"}

\* Lines the front-end writes to stdin while an approval is pending:
\* end of input, a line that is not JSON, {approved: true},
\* {approved: false}, and a JSON object without an `approved` field.
ApprovalLines == {"EOF", "badjson", "approved", "denied", "noflag"}

\* What the underlying tool does: returns with exit status 0, returns with
\* a non-zero exit status, or raises.
ToolOutcomes == {"ok", "exit_nonzero", "raise"}

\* The output threshold of the runs in which no output is large.
DefaultThreshold == MaxOut + 1

\* A tool that returned None.
NoResult == [kind |-> "none", text |-> <<>>]

\* The value of `finale` while executor_agent.run has not come back.
NotReturned == "none"

\* Standard input where the lines of the front end are not followed.
NoPipe == [lines |-> <<>>, read |-> 0]

\* ------------------------------------------------------------- the state
VARIABLES
    session,        \* the in-memory AgentSession of the running process
    disk,           \* the store: this session_hash's JSON file and HDF5 group
    pc,             \* where the process is
    run,            \* number of the process run (1 = first)
    ncalls,         \* tool calls issued so far in the session
    cmd,            \* the command the command loop dispatched, or "none"
    recipe_steps,   \* create_and_audit_plan's parsed plan, or None
    plan_str,       \* the planner's text while it is parsed, or None
    verbosity,      \* the --verbosity argument of the process
    python_log_level, \* the emitter's configured level (_python_log_level)
    auditor_output, \* what auditor.run last did (its text, or that it raised), or None
    output_threshold_bytes, \* the --output-threshold-bytes argument
    tool_res,       \* what the underlying tool returned to the current invocation
    spill_writes,   \* names of the files written under /tmp/og/<session_hash>, in order
    finale,         \* what executor_agent.run gave _execute_and_emit_finale, or NotReturned
    stdin,          \* the lines the front end wrote to standard input, and how many were read
    hook,           \* the local variables of the current _around_hook call
    calls,          \* the tool calls the executor issued in this run
    events          \* the non-log records this run wrote to stdout

vars ==
    <<session, disk, pc, run, ncalls, cmd, recipe_steps, plan_str, verbosity,
      python_log_level, auditor_output, output_threshold_bytes, tool_res,
      spill_writes, finale, stdin, hook, calls, events>>

\* ------------------------------------------------------ the session store
\* AgentSession.__init__: the fields of a session nothing was loaded into.
BlankSession ==
    [ conversation_history |-> <<>>,
      current_recipe |-> None,
      fallback_action |-> None,
      executed_actions |-> <<>>,
      original_query |-> None,
      is_single_step_plan |-> FALSE,
      recipe_preapproved |-> FALSE,
      next_expected_recipe_step_idx |-> 0,
      next_expected_subcommand_idx |-> 0,
      deviation_occurred |-> FALSE ]

\* json.dumps / json.loads of a value: the text is held as a record around
\* the value it denotes.
json_dumps(obj) == [json |-> obj]
json_loads(text) == text.json

\* The store of one session_hash: the session's JSON file and its group in
\* the HDF5 archive, each absent (None) or present.
NoStore == [json_file |-> None, h5 |-> None]

\* _save_session's payload: the ten fields written to the JSON file.
payload(s) ==
    [ conversation_history |-> s.conversation_history,
      current_recipe |-> s.current_recipe,
      fallback_action |-> s.fallback_action,
      executed_actions |-> s.executed_actions,
      original_query |-> s.original_query,
      is_single_step_plan |-> s.is_single_step_plan,
      recipe_preapproved |-> s.recipe_preapproved,
      next_expected_recipe_step_idx |-> s.next_expected_recipe_step_idx,
      next_expected_subcommand_idx |-> s.next_expected_subcommand_idx,
      deviation_occurred |-> s.deviation_occurred ]

\* _save_session's HDF5 snapshot: the flags and the cursor as attributes of
\* the group, the five collections as JSON datasets (the timestamp
\* attribute is left out).
h5_group(s) ==
    [ attrs |->
        [ is_single_step_plan |-> s.is_single_step_plan,
          recipe_preapproved |-> s.recipe_preapproved,
          next_expected_recipe_step_idx |-> s.next_expected_recipe_step_idx,
          next_expected_subcommand_idx |-> s.next_expected_subcommand_idx,
          deviation_occurred |-> s.deviation_occurred ],
      memory |-> json_dumps(s.conversation_history),
      recipe |-> json_dumps(s.current_recipe),
      fallback |-> json_dumps(s.fallback_action),
      executed |-> json_dumps(s.executed_actions),
      original_query |-> json_dumps(s.original_query) ]

\* Mutant: the JSON file is written once and never rewritten.
save_session_json_once(d, s) ==
    [ json_file |-> IF d.json_file = None THEN Some(json_dumps(payload(s)))
                    ELSE d.json_file,
      h5 |-> Some(h5_group(s)) ]

\* _save_session: both storage forms are rewritten in full.
save_session(d, s) ==
    [ json_file |-> Some(json_dumps(payload(s))),
      h5 |-> Some(h5_group(s)) ]

\* _h5_load_json(grp, key)
h5_load_json(grp, key) == json_loads(grp[key])

\* `x or []`: a missing (None) collection is the empty list.
or_empty(x) == IF x = None THEN <<>> ELSE x

\* _load_session, the HDF5 branch: the state held by the session's group.
load_from_h5(grp) ==
    [ conversation_history |-> or_empty(h5_load_json(grp, "memory")),
      current_recipe |-> h5_load_json(grp, "recipe"),
      fallback_action |-> h5_load_json(grp, "fallback"),
      executed_actions |-> or_empty(h5_load_json(grp, "executed")),
      original_query |-> h5_load_json(grp, "original_query"),
      is_single_step_plan |-> grp.attrs.is_single_step_plan,
      recipe_preapproved |-> grp.attrs.recipe_preapproved,
      next_expected_recipe_step_idx |-> grp.attrs.next_expected_recipe_step_idx,
      next_expected_subcommand_idx |-> grp.attrs.next_expected_subcommand_idx,
      deviation_occurred |-> grp.attrs.deviation_occurred ]

\* _load_session, the JSON branch: the state held by the session's file.
load_from_json(text) ==
    LET data == json_loads(text) IN
    [ conversation_history |-> data.conversation_history,
      current_recipe |-> data.current_recipe,
      fallback_action |-> data.fallback_action,
      executed_actions |-> data.executed_actions,
      original_query |-> data.original_query,
      is_single_step_plan |-> data.is_single_step_plan,
      recipe_preapproved |-> data.recipe_preapproved,
      next_expected_recipe_step_idx |-> data.next_expected_recipe_step_idx,
      next_expected_subcommand_idx |-> data.next_expected_subcommand_idx,
      deviation_occurred |-> data.deviation_occurred ]

\* The archive is consulted first, then the JSON file; a session found in
\* neither stays blank.
restore(d) ==
    IF d.h5 # None THEN load_from_h5(d.h5[1])
    ELSE IF d.json_file # None THEN load_from_json(d.json_file[1])
    ELSE BlankSession

\* Mutant: the deviation flag is not restored (it takes its default).
load_session_drops_deviation(d) ==
    [restore(d) EXCEPT !.deviation_occurred = FALSE]

\* Mutant: the progress cursor is not restored (it takes its default).
load_session_drops_cursor(d) ==
    [restore(d) EXCEPT !.next_expected_recipe_step_idx = 0,
                       !.next_expected_subcommand_idx = 0]

\* Mutant: the original query is not restored.
load_session_drops_query(d) ==
    [restore(d) EXCEPT !.original_query = None]

\* Mutant: the JSON file is read first, the archive only without it.
load_session_json_first(d) ==
    IF d.json_file # None THEN load_from_json(d.json_file[1])
    ELSE IF d.h5 # None THEN load_from_h5(d.h5[1])
    ELSE BlankSession

\* Mutant: the conversation history is not restored.
load_session_drops_history(d) ==
    [restore(d) EXCEPT !.conversation_history = <<>>]

\* _load_session, run by AgentSession's constructor on a blank session.
load_session(d) == restore(d)

\* check_session_exists_in_h5: only the archive is consulted.
check_session_exists(d) == d.h5 # None

add_to_history(s, role, content) ==
    [s EXCEPT !.conversation_history =
        Append(@, [role |-> role, content |-> content])]

\* Mutant: a tool call that raised is not recorded.
add_executed_action_skips_errors(s, tool_name, action, result) ==
    IF result = "ERROR"
    THEN s
    ELSE [s EXCEPT !.executed_actions =
            Append(@, [tool |-> tool_name, action |-> action, result |-> result])]

\* The timestamp field of the entry is left out.
add_executed_action(s, tool_name, action, result) ==
    [s EXCEPT !.executed_actions =
        Append(@, [tool |-> tool_name, action |-> action, result |-> result])]

\* Mutant: every plan without a fallback counts as a single-step plan.
set_plan_any_length(s, steps, fallback) ==
    [s EXCEPT !.current_recipe = Some(steps),
              !.fallback_action = fallback,
              !.is_single_step_plan = (Len(steps) >= 1 /\ fallback = None),
              !.recipe_preapproved = FALSE,
              !.next_expected_recipe_step_idx = 0,
              !.next_expected_subcommand_idx = 0,
              !.deviation_occurred = FALSE]

\* Mutant: a new plan does not reset the progress cursor.
set_plan_keeps_cursor(s, steps, fallback) ==
    [s EXCEPT !.current_recipe = Some(steps),
              !.fallback_action = fallback,
              !.is_single_step_plan = (Len(steps) = 1 /\ fallback = None),
              !.recipe_preapproved = FALSE,
              !.deviation_occurred = FALSE]

set_plan(s, steps, fallback) ==
    [s EXCEPT !.current_recipe = Some(steps),
              !.fallback_action = fallback,
              !.is_single_step_plan = (Len(steps) = 1 /\ fallback = None),
              !.recipe_preapproved = FALSE,
              !.next_expected_recipe_step_idx = 0,
              !.next_expected_subcommand_idx = 0,
              !.deviation_occurred = FALSE]

set_original_query(s, query) == [s EXCEPT !.original_query = Some(query)]

set_recipe_preapproved(s, status) == [s EXCEPT !.recipe_preapproved = status]

set_single_step_plan_status(s, status) == [s EXCEPT !.is_single_step_plan = status]

set_deviation_occurred(s, status) == [s EXCEPT !.deviation_occurred = status]

\* Mutant: the subcommand index is not reset.
increment_recipe_step_keeps_subcmd(s) ==
    [s EXCEPT !.next_expected_recipe_step_idx = @ + 1]

increment_recipe_step(s) ==
    [s EXCEPT !.next_expected_recipe_step_idx = @ + 1,
              !.next_expected_subcommand_idx = 0]

increment_subcommand_idx(s) ==
    [s EXCEPT !.next_expected_subcommand_idx = @ + 1]

\* The recipe as a sequence of steps (empty when there is none).
RecipeOf(s) == IF s.current_recipe = None THEN <<>> ELSE s.current_recipe[1]

\* get_expected_recipe_step: the step at the cursor, or None.
get_expected_recipe_step(s) ==
    IF /\ RecipeOf(s) # <<>>
       /\ s.next_expected_recipe_step_idx < Len(RecipeOf(s))
    THEN Some(RecipeOf(s)[s.next_expected_recipe_step_idx + 1])
    ELSE None

\* step.get('action', '').strip().split('\n'): the lines of a step's block.
planned_commands(step) == step.action

\* get_expected_subcommand: the trimmed line at the cursor, or None.
get_expected_subcommand(s) ==
    LET expected_step == get_expected_recipe_step(s) IN
    IF /\ expected_step # None
       /\ expected_step[1].tool = "shell_tool"
       /\ s.next_expected_subcommand_idx < Len(planned_commands(expected_step[1]))
    THEN Some(strip(planned_commands(expected_step[1])[s.next_expected_subcommand_idx + 1]))
    ELSE None

\* A mutator's effect: the new in-memory state, serialised in full
\* (_save_session).
Persist(s) ==
    /\ session' = s
    /\ disk' = save_session(disk, s)

\* ------------------------------------------------------------- the emitter
\* LogLevel (an IntEnum)
LogLevel == [DEBUG |-> 0, INFO |-> 1, WARN |-> 2, NONE |-> 3]

\* The values --verbosity is given: the four levels, a level in capitals
\* and a word that is no level.
VerbosityArgs == {"debug", "info", "warn", "none", "WARN", "loud"}

\* str.upper()
upper(level_str) ==
    CASE level_str \in {"debug", "DEBUG"} -> "DEBUG"
      [] level_str \in {"info", "INFO"} -> "INFO"
      [] level_str \in {"warn", "WARN"} -> "WARN"
      [] level_str \in {"none", "NONE"} -> "NONE"
      [] level_str = "loud" -> "LOUD"
      [] OTHER -> level_str

\* set_python_log_level: the level of that name, INFO for a KeyError.
set_python_log_level(level_str) ==
    IF upper(level_str) \in DOMAIN LogLevel
    THEN LogLevel[upper(level_str)]
    ELSE LogLevel.INFO

\* emit's log_type_map
log_type_map ==
    [debug_log |-> LogLevel.DEBUG, info_log |-> LogLevel.INFO, warn_log |-> LogLevel.WARN]

\* The message types the program emits.
MsgTypes ==
    { "debug_log", "info_log", "warn_log", "error", "unsafe", "plan",
      "request_approval", "result", "final_summary", "deny_current_action" }

\* Mutant: a log record of exactly the configured level is filtered too.
emit_writes_above(msg_type, level) ==
    msg_type \in DOMAIN log_type_map => log_type_map[msg_type] > level

\* emit: whether a message of this type is printed at this level.
emit_writes(msg_type, level) ==
    msg_type \in DOMAIN log_type_map => log_type_map[msg_type] >= level

\* ------------------------------------------------------------ the auditor
\* Characters of a verdict's safe value; "x" stands for any other character.
Chars == {"t", "r", "u", "e", "T", "x"}

\* The text that follows "# SAFE:" and its whitespace on the first such line
\* of a markdown reply.
SafeTexts == UNION {[1..n -> Chars] : n \in 0..MaxVal}

\* str(v) of the value under the SAFE key of a JSON reply: the booleans,
\* null, the number 1, and strings.
JsonSafeValues ==
    { <<"T", "r", "u", "e">>, <<"F", "a", "l", "s", "e">>,
      <<"N", "o", "n", "e">>, <<"1">>,
      <<"t", "r", "u", "e">>, <<"t", "r", "u", "e", "x">>, <<"y", "e", "s">> }

\* What one auditor.run does: it raises; it returns a JSON object, holding
\* all of SAFE, REASON and EXPLANATION or not; it returns a markdown stanza
\* with a SAFE line; it returns text with neither.
AuditorOutputs ==
    {[shape |-> "raise", keys |-> FALSE, safe |-> <<>>],
     [shape |-> "other", keys |-> FALSE, safe |-> <<>>]}
    \cup {[shape |-> "json", keys |-> k, safe |-> v] :
              k \in BOOLEAN, v \in JsonSafeValues}
    \cup {[shape |-> "markdown", keys |-> FALSE, safe |-> v] : v \in SafeTexts}

\* str.lower()
lower(text) ==
    [i \in DOMAIN text |->
        CASE text[i] = "T" -> "t"
          [] text[i] = "F" -> "f"
          [] text[i] = "N" -> "n"
          [] OTHER -> text[i]]

\* re.search(r"^#\s*SAFE:\s*(true|false)", ..., re.IGNORECASE): group 1 for
\* the text after "# SAFE:", or None without a match.  The pattern is not
\* anchored after the word.
safe_match(text) ==
    IF Len(text) >= 4 /\ lower(SubSeq(text, 1, 4)) = <<"t", "r", "u", "e">>
    THEN Some(SubSeq(text, 1, 4))
    ELSE IF Len(text) >= 5
            /\ lower(SubSeq(text, 1, 5)) = <<"f", "a", "l", "s", "e">>
         THEN Some(SubSeq(text, 1, 5))
         ELSE None

\* parse_audit_markdown_response: the verdict of a JSON object that holds
\* the three keys (_find_audit_verdict_in_json), else of the markdown SAFE
\* line, else safe = False.
parse_audit_markdown_response(out) ==
    IF out.shape = "json" /\ out.keys
    THEN [safe |-> lower(out.safe) = <<"t", "r", "u", "e">>, reason |-> "given"]
    ELSE IF out.shape = "markdown" /\ safe_match(out.safe) # None
         THEN [safe |-> lower(safe_match(out.safe)[1]) = <<"t", "r", "u", "e">>,
               reason |-> IF lower(safe_match(out.safe)[1]) = <<"t", "r", "u", "e">>
                          THEN "N/A"
                          ELSE "Unable to determine safety from auditor response."]
         ELSE [safe |-> FALSE,
               reason |-> "Unable to determine safety from auditor response."]

\* audit_request: the parsed verdict, or the failure verdict when
\* auditor.run raised.
audit_request(out) ==
    IF out.shape = "raise"
    THEN [safe |-> FALSE, reason |-> "Audit evaluation failed"]
    ELSE parse_audit_markdown_response(out)

\* ------------------------------------------------------------- the events
\* An emitted record: its type, the status of a result / final_summary
\* ("" otherwise), and the number of the tool call of this run whose proxy
\* invocation wrote it (0: written by the orchestrator).
Ev(type, status, inv) == [type |-> type, status |-> status, inv |-> inv]

\* Mutant: a record is written before the records written so far.
emit_prepends(evs, type, status, inv) == <<Ev(type, status, inv)>> \o evs

\* emit() for the types that are written whatever the verbosity.
emit(evs, type, status, inv) == Append(evs, Ev(type, status, inv))

\* The locals of an _around_hook call before it starts.
NoHook ==
    [ name |-> "", action_str |-> "", safe |-> FALSE,
      is_current_action_expected_by_recipe |-> FALSE,
      should_request_approval |-> TRUE,
      resp |-> "none", status |-> "" ]

\* ---------------------------------------------------------- process start
Init ==
    /\ disk = NoStore
    /\ session = load_session(NoStore)
    /\ pc = "start"
    /\ run = 1
    /\ ncalls = 0
    /\ cmd = "none"
    /\ recipe_steps = None
    /\ plan_str = None
    /\ hook = NoHook
    /\ verbosity = "info"
    /\ python_log_level = set_python_log_level(verbosity)
    /\ auditor_output = None
    /\ output_threshold_bytes = DefaultThreshold
    /\ tool_res = NoResult
    /\ spill_writes = <<>>
    /\ finale = NotReturned
    /\ stdin = NoPipe
    /\ calls = <<>>
    /\ events = <<>>

\* AgentOrchestrator.run: the initial-plan path when the store does not
\* hold the session, the resume path otherwise.  A new session without a
\* query is an error.
Start(has_query) ==
    /\ pc = "start"
    /\ IF check_session_exists(disk)
       THEN /\ pc' = "await_cmd"
            /\ UNCHANGED events
       ELSE IF ~has_query
            THEN /\ pc' = "exited"
                 /\ events' = emit(events, "error", "", 0)
            ELSE /\ pc' = "planning"
                 /\ UNCHANGED events
    /\ UNCHANGED <<session, disk, run, ncalls, cmd, recipe_steps, plan_str, hook, calls>>
    /\ UNCHANGED <<verbosity, python_log_level, auditor_output>>
    /\ UNCHANGED <<output_threshold_bytes, tool_res, spill_writes, finale, stdin>>

\* Mutant: an unsafe first action is reported and the plan stored anyway.
Planning_ignores_audit(planner_ok, steps, safe) ==
    /\ pc = "planning"
    /\ IF ~planner_ok
       THEN /\ events' = emit(events, "error", "", 0)
            /\ pc' = "exited"
            /\ UNCHANGED recipe_steps
       ELSE IF steps = <<>>
            THEN /\ events' = emit(emit(events, "error", "", 0), "unsafe", "", 0)
                 /\ pc' = "exited"
                 /\ UNCHANGED recipe_steps
            ELSE /\ events' = IF safe THEN events ELSE emit(events, "unsafe", "", 0)
                 /\ recipe_steps' = Some(steps)
                 /\ pc' = "store_plan"
    /\ UNCHANGED <<session, disk, run, ncalls, cmd, hook, calls, plan_str>>
    /\ UNCHANGED <<verbosity, python_log_level, auditor_output>>
    /\ UNCHANGED <<output_threshold_bytes, tool_res, spill_writes, finale, stdin>>

\* create_and_audit_plan up to the audit of the first action: the planner
\* raises, or its text parses to `steps` (empty: no plan), and the auditor
\* gives `safe` for the first action.
Planning(planner_ok, steps, safe) ==
    /\ pc = "planning"
    /\ IF ~planner_ok
       THEN /\ events' = emit(events, "error", "", 0)
            /\ pc' = "exited"
            /\ UNCHANGED recipe_steps
       ELSE IF steps = <<>>
            THEN /\ events' = emit(emit(events, "error", "", 0), "unsafe", "", 0)
                 /\ pc' = "exited"
                 /\ UNCHANGED recipe_steps
            ELSE IF ~safe
                 THEN /\ events' = emit(events, "unsafe", "", 0)
                      /\ pc' = "exited"
                      /\ UNCHANGED recipe_steps
                 ELSE /\ recipe_steps' = Some(steps)
                      /\ pc' = "store_plan"
                      /\ UNCHANGED events
    /\ UNCHANGED <<session, disk, run, ncalls, cmd, hook, calls, plan_str>>
    /\ UNCHANGED <<verbosity, python_log_level, auditor_output>>
    /\ UNCHANGED <<output_threshold_bytes, tool_res, spill_writes, finale, stdin>>

\* _store_and_emit_plan, first mutator: session.set_plan(recipe_steps, None).
StorePlan ==
    /\ pc = "store_plan"
    /\ Persist(set_plan(session, recipe_steps[1], None))
    /\ pc' = "store_query"
    /\ UNCHANGED <<run, ncalls, cmd, recipe_steps, plan_str, hook, calls, events>>
    /\ UNCHANGED <<verbosity, python_log_level, auditor_output>>
    /\ UNCHANGED <<output_threshold_bytes, tool_res, spill_writes, finale, stdin>>

\* _store_and_emit_plan, second mutator and the plan event.
StoreQuery ==
    /\ pc = "store_query"
    /\ Persist(set_original_query(session, "query"))
    /\ events' = emit(events, "plan", "", 0)
    /\ recipe_steps' = None
    /\ pc' = "await_cmd"
    /\ UNCHANGED <<run, ncalls, cmd, hook, calls, plan_str>>
    /\ UNCHANGED <<verbosity, python_log_level, auditor_output>>
    /\ UNCHANGED <<output_threshold_bytes, tool_res, spill_writes, finale, stdin>>

\* ------------------------------------------------------- the command loop
\* Mutant: the loop goes on reading after deny_current_action.
ReadCommand_reads_on(line) ==
    /\ pc = "await_cmd"
    /\ CASE line = "EOF" ->
              /\ pc' = "exited"
              /\ UNCHANGED <<cmd, events>>
         [] line = "badjson" ->
              /\ pc' = "exited"
              /\ events' = emit(events, "error", "", 0)
              /\ UNCHANGED cmd
         [] line \in ExecuteCommands ->
              /\ pc' = "h1"
              /\ cmd' = line
              /\ UNCHANGED events
         [] line = "user_approval_response" ->
              /\ UNCHANGED <<pc, cmd, events>>
         [] line = "deny_current_action" ->
              /\ pc' = "await_cmd"
              /\ events' = emit(events, "final_summary", "cancelled", 0)
              /\ UNCHANGED cmd
         [] OTHER ->
              /\ pc' = "exited"
              /\ events' = emit(events, "error", "", 0)
              /\ UNCHANGED cmd
    /\ UNCHANGED <<session, disk, run, ncalls, recipe_steps, plan_str, hook, calls>>
    /\ UNCHANGED <<verbosity, python_log_level, auditor_output>>
    /\ UNCHANGED <<output_threshold_bytes, tool_res, spill_writes, finale>>

\* _process_commands / handle_command: one line read from stdin.
ReadCommand(line) ==
    /\ pc = "await_cmd"
    /\ CASE line = "EOF" ->
              /\ pc' = "exited"
              /\ UNCHANGED <<cmd, events>>
         [] line = "badjson" ->
              /\ pc' = "exited"
              /\ events' = emit(events, "error", "", 0)
              /\ UNCHANGED cmd
         [] line \in ExecuteCommands ->
              /\ pc' = "h1"
              /\ cmd' = line
              /\ UNCHANGED events
         [] line = "user_approval_response" ->
              /\ UNCHANGED <<pc, cmd, events>>
         [] line = "deny_current_action" ->
              /\ pc' = "exited"
              /\ events' = emit(events, "final_summary", "cancelled", 0)
              /\ UNCHANGED cmd
         [] OTHER ->
              /\ pc' = "exited"
              /\ events' = emit(events, "error", "", 0)
              /\ UNCHANGED cmd
    /\ UNCHANGED <<session, disk, run, ncalls, recipe_steps, plan_str, hook, calls>>
    /\ UNCHANGED <<verbosity, python_log_level, auditor_output>>
    /\ UNCHANGED <<output_threshold_bytes, tool_res, spill_writes, finale>>

\* The first mutator call of _handle_execute_recipe,
\* _handle_execute_single_action and _handle_execute_fallback.
handler_step1(s, c) ==
    set_single_step_plan_status(s, c = "execute_single_action")

\* Their second mutator call.
handler_step2(s, c) ==
    set_recipe_preapproved(s, c = "execute_recipe")

\* Their third mutator call.
handler_step3(s, c) == increment_recipe_step(s)

\* Their fourth mutator call.
handler_step4(s, c) ==
    set_deviation_occurred(s, c = "execute_fallback")

HandleExecute1 ==
    /\ pc = "h1"
    /\ Persist(handler_step1(session, cmd))
    /\ pc' = "h2"
    /\ UNCHANGED <<run, ncalls, cmd, recipe_steps, plan_str, hook, calls, events>>
    /\ UNCHANGED <<verbosity, python_log_level, auditor_output>>
    /\ UNCHANGED <<output_threshold_bytes, tool_res, spill_writes, finale, stdin>>

HandleExecute2 ==
    /\ pc = "h2"
    /\ Persist(handler_step2(session, cmd))
    /\ pc' = "h3"
    /\ UNCHANGED <<run, ncalls, cmd, recipe_steps, plan_str, hook, calls, events>>
    /\ UNCHANGED <<verbosity, python_log_level, auditor_output>>
    /\ UNCHANGED <<output_threshold_bytes, tool_res, spill_writes, finale, stdin>>

HandleExecute3 ==
    /\ pc = "h3"
    /\ Persist(handler_step3(session, cmd))
    /\ pc' = "h4"
    /\ UNCHANGED <<run, ncalls, cmd, recipe_steps, plan_str, hook, calls, events>>
    /\ UNCHANGED <<verbosity, python_log_level, auditor_output>>
    /\ UNCHANGED <<output_threshold_bytes, tool_res, spill_writes, finale, stdin>>

\* After the fourth mutator _execute_and_emit_finale starts the executor.
HandleExecute4 ==
    /\ pc = "h4"
    /\ Persist(handler_step4(session, cmd))
    /\ pc' = "executor"
    /\ UNCHANGED <<run, ncalls, cmd, recipe_steps, plan_str, hook, calls, events>>
    /\ UNCHANGED <<verbosity, python_log_level, auditor_output>>
    /\ UNCHANGED <<output_threshold_bytes, tool_res, spill_writes, finale, stdin>>

\* ---------------------------------------------------------- the tool proxy
\* Mutant: a pre-approved recipe stays pre-approved after a deviation.
plan_match_forgets_deviation(s, name, action_str) ==
    LET expected_step == get_expected_recipe_step(s)
        expected_subcommand == get_expected_subcommand(s)
        Verdict(e, a, d) ==
            [ is_current_action_expected_by_recipe |-> e,
              should_request_approval |-> a,
              deviates |-> d ]
    IN
    IF expected_step # None
    THEN IF name = expected_step[1].tool
         THEN IF /\ expected_subcommand # None
                 /\ strip(action_str) = expected_subcommand[1]
              THEN IF \/ s.recipe_preapproved
                      \/ /\ s.is_single_step_plan
                         /\ s.next_expected_recipe_step_idx = 0
                         /\ s.next_expected_subcommand_idx = 0
                   THEN Verdict(TRUE, FALSE, FALSE)
                   ELSE Verdict(TRUE, TRUE, TRUE)
              ELSE Verdict(FALSE, TRUE, TRUE)
         ELSE Verdict(FALSE, TRUE, TRUE)
    ELSE Verdict(FALSE, TRUE, s.recipe_preapproved /\ ~s.deviation_occurred)

\* _around_hook, step 2 (plan match and auto-approval test): whether the
\* action is the one the recipe expects next, whether the user must approve
\* it, and whether session.set_deviation_occurred(True) is called.
plan_match(s, name, action_str) ==
    LET expected_step == get_expected_recipe_step(s)
        expected_subcommand == get_expected_subcommand(s)
        Verdict(e, a, d) ==
            [ is_current_action_expected_by_recipe |-> e,
              should_request_approval |-> a,
              deviates |-> d ]
    IN
    IF expected_step # None
    THEN IF name = expected_step[1].tool
         THEN IF /\ expected_subcommand # None
                 /\ strip(action_str) = expected_subcommand[1]
              THEN IF \/ (s.recipe_preapproved /\ ~s.deviation_occurred)
                      \/ /\ s.is_single_step_plan
                         /\ s.next_expected_recipe_step_idx = 0
                         /\ s.next_expected_subcommand_idx = 0
                   THEN Verdict(TRUE, FALSE, FALSE)
                   ELSE Verdict(TRUE, TRUE, TRUE)
              ELSE Verdict(FALSE, TRUE, TRUE)
         ELSE Verdict(FALSE, TRUE, TRUE)
    ELSE Verdict(FALSE, TRUE, s.recipe_preapproved /\ ~s.deviation_occurred)

\* Mutant: the verdict of the auditor is not looked at.
audit_passes_always(safe) == TRUE

\* Whether the audit verdict lets the invocation go on (audit_res["safe"]).
audit_passes(safe) == safe

\* Mutant: a reply without an `approved` field counts as an approval.
reply_approves_by_default(line) == line \in {"approved", "noflag"}

\* Whether the approval reply lets the tool run (resp.get("approved", False)).
reply_approves(line) == line = "approved"

\* The executor calls a proxy with `action_str`; the proxy audits it.  An
\* unsafe verdict sets the deviation flag (if not set), emits unsafe and
\* deny_current_action, and returns None to the executor.  After a safe
\* verdict the plan-match test follows; a deviation is persisted at once.
HookAudit(name, action_str, safe) ==
    /\ pc = "executor"
    /\ ncalls < MaxCalls
    /\ ncalls' = ncalls + 1
    /\ calls' = Append(calls, [tool |-> name, action |-> action_str, safe |-> safe])
    /\ IF ~audit_passes(safe)
       THEN /\ hook' = NoHook
            /\ IF ~session.deviation_occurred
               THEN Persist(set_deviation_occurred(session, TRUE))
               ELSE UNCHANGED <<session, disk>>
            /\ events' = emit(emit(events, "unsafe", "", Len(calls')),
                              "deny_current_action", "", Len(calls'))
            /\ pc' = "executor"
       ELSE LET m == plan_match(session, name, action_str) IN
            /\ hook' = [NoHook EXCEPT !.name = name, !.action_str = action_str,
                  !.safe = safe,
                  !.is_current_action_expected_by_recipe =
                        m.is_current_action_expected_by_recipe,
                  !.should_request_approval = m.should_request_approval]
            /\ IF m.deviates
               THEN Persist(set_deviation_occurred(session, TRUE))
               ELSE UNCHANGED <<session, disk>>
            /\ pc' = IF m.should_request_approval THEN "ask" ELSE "exec"
            /\ UNCHANGED events
    /\ UNCHANGED <<run, cmd, recipe_steps, plan_str>>
    /\ UNCHANGED <<verbosity, python_log_level, auditor_output>>
    /\ UNCHANGED <<output_threshold_bytes, tool_res, spill_writes, finale, stdin>>

\* The request is added to the history and request_approval is emitted; the
\* proxy then waits for a line on stdin.
HookAsk ==
    /\ pc = "ask"
    /\ Persist(add_to_history(session, "assistant", <<hook.name, hook.action_str>>))
    /\ events' = emit(events, "request_approval", "", Len(calls))
    /\ pc' = "await_approval"
    /\ UNCHANGED <<run, ncalls, cmd, recipe_steps, plan_str, hook, calls>>
    /\ UNCHANGED <<verbosity, python_log_level, auditor_output>>
    /\ UNCHANGED <<output_threshold_bytes, tool_res, spill_writes, finale, stdin>>

\* The line read while the approval is pending.  The proxy returns None
\* unless the reply approves.
HookReply(line) ==
    /\ pc = "await_approval"
    /\ IF line \in {"EOF", "badjson"}
       THEN /\ hook' = NoHook
            /\ events' = emit(emit(events, "error", "", Len(calls)),
                              "deny_current_action", "", Len(calls))
            /\ pc' = "executor"
       ELSE IF ~reply_approves(line)
            THEN /\ hook' = NoHook
                 /\ events' = emit(emit(events, "result", "cancelled", Len(calls)),
                                   "deny_current_action", "", Len(calls))
                 /\ pc' = "executor"
            ELSE /\ hook' = [hook EXCEPT !.resp = line]
                 /\ pc' = "exec"
                 /\ UNCHANGED events
    /\ UNCHANGED <<session, disk, run, ncalls, cmd, recipe_steps, plan_str, calls>>
    /\ UNCHANGED <<verbosity, python_log_level, auditor_output>>
    /\ UNCHANGED <<output_threshold_bytes, tool_res, spill_writes, finale>>

\* The status of the result event of a tool call that returned: failure for
\* a shell command that exited with a non-zero status.
result_status(name, outcome) ==
    IF name = "shell_tool" /\ outcome = "exit_nonzero" THEN "failure" ELSE "success"

\* The underlying tool is called.  When it returns, the action is recorded
\* with its result, and an invocation the recipe did not expect emits its
\* result event.  When it raises, error is emitted, the action is recorded
\* with an ERROR result and a failure result is emitted.
HookExec(outcome) ==
    /\ pc = "exec"
    /\ IF outcome = "raise"
       THEN /\ Persist(add_executed_action(session, hook.name, hook.action_str, "ERROR"))
            /\ events' = emit(emit(events, "error", "", Len(calls)),
                              "result", "failure", Len(calls))
            /\ hook' = [hook EXCEPT !.status = "failure"]
            /\ pc' = "raise_dev"
       ELSE /\ Persist(add_executed_action(session, hook.name, hook.action_str, outcome))
            /\ IF hook.is_current_action_expected_by_recipe
               THEN /\ pc' = "inc_sub"
                    /\ hook' = [hook EXCEPT !.status = result_status(hook.name, outcome)]
                    /\ UNCHANGED events
               ELSE /\ pc' = "executor"
                    /\ hook' = NoHook
                    /\ events' = emit(events, "result",
                                      result_status(hook.name, outcome), Len(calls))
    /\ UNCHANGED <<run, ncalls, cmd, recipe_steps, plan_str, calls>>
    /\ UNCHANGED <<verbosity, python_log_level, auditor_output>>
    /\ UNCHANGED <<output_threshold_bytes, tool_res, spill_writes, finale, stdin>>

\* Whether the step at the cursor is finished after the subcommand index
\* was incremented.
step_finished(s) ==
    LET expected_step_after_increment == get_expected_recipe_step(s) IN
    /\ expected_step_after_increment # None
    /\ s.next_expected_subcommand_idx >=
          Len(planned_commands(expected_step_after_increment[1]))

\* A planned invocation advances the subcommand index; when the step is not
\* finished the result event follows.
HookIncSub ==
    /\ pc = "inc_sub"
    /\ Persist(increment_subcommand_idx(session))
    /\ IF step_finished(session')
       THEN /\ pc' = "inc_step"
            /\ UNCHANGED <<hook, events>>
       ELSE /\ pc' = "executor"
            /\ hook' = NoHook
            /\ events' = emit(events, "result", hook.status, Len(calls))
    /\ UNCHANGED <<run, ncalls, cmd, recipe_steps, plan_str, calls>>
    /\ UNCHANGED <<verbosity, python_log_level, auditor_output>>
    /\ UNCHANGED <<output_threshold_bytes, tool_res, spill_writes, finale, stdin>>

\* ... and the step index when the step's last line was run; the result
\* event follows.
HookIncStep ==
    /\ pc = "inc_step"
    /\ Persist(increment_recipe_step(session))
    /\ events' = emit(events, "result", hook.status, Len(calls))
    /\ hook' = NoHook
    /\ pc' = "executor"
    /\ UNCHANGED <<run, ncalls, cmd, recipe_steps, plan_str, calls>>
    /\ UNCHANGED <<verbosity, python_log_level, auditor_output>>
    /\ UNCHANGED <<output_threshold_bytes, tool_res, spill_writes, finale, stdin>>

\* The last statement of the except branch: the deviation flag is set.
HookRaiseDev ==
    /\ pc = "raise_dev"
    /\ Persist(set_deviation_occurred(session, TRUE))
    /\ hook' = NoHook
    /\ pc' = "executor"
    /\ UNCHANGED <<run, ncalls, cmd, recipe_steps, plan_str, calls, events>>
    /\ UNCHANGED <<verbosity, python_log_level, auditor_output>>
    /\ UNCHANGED <<output_threshold_bytes, tool_res, spill_writes, finale, stdin>>

\* ------------------------------------------------------------ the executor
\* What executor_agent.run can hand back: the argument of final_answer is of
\* any type.  "text" is a string or a falsy value (None, 0), for which
\* `finale.splitlines() if finale else []` gives a list; "object" is a truthy
\* value that is not a string (a number, a list, a dict).
Finales == {"text", "object"}

\* `finale.splitlines() if finale else []` raises AttributeError exactly for
\* a truthy value without that method.
splitlines_raises(f) == f = "object"

\* The records _execute_and_emit_finale writes once executor_agent.run is
\* over: final_summary with status success from the try block, or error and
\* the cancelled final_summary from the except branch.
finale_events(evs, f) ==
    IF f = "raised" \/ splitlines_raises(f)
    THEN emit(emit(evs, "error", "", 0), "final_summary", "cancelled", 0)
    ELSE emit(evs, "final_summary", "success", 0)

\* executor_agent.run returns `f`: final_summary, and the command loop ends
\* (the handler returns False, or the except branch calls sys.exit(1)).
ExecutorReturn(f) ==
    /\ pc = "executor"
    /\ finale' = f
    /\ events' = finale_events(events, f)
    /\ pc' = "exited"
    /\ UNCHANGED <<session, disk, run, ncalls, cmd, recipe_steps, plan_str, hook, calls>>
    /\ UNCHANGED <<verbosity, python_log_level, auditor_output>>
    /\ UNCHANGED <<output_threshold_bytes, tool_res, spill_writes, stdin>>

\* executor_agent.run raises: error, a cancelled final_summary, exit(1).
ExecutorRaise ==
    /\ pc = "executor"
    /\ finale' = "raised"
    /\ events' = finale_events(events, "raised")
    /\ pc' = "exited"
    /\ UNCHANGED <<session, disk, run, ncalls, cmd, recipe_steps, plan_str, hook, calls>>
    /\ UNCHANGED <<verbosity, python_log_level, auditor_output>>
    /\ UNCHANGED <<output_threshold_bytes, tool_res, spill_writes, stdin>>

\* A new process is started with the same session_hash: AgentSession's
\* constructor loads the session from the store.
Restart ==
    /\ pc = "exited"
    /\ run < MaxRuns
    /\ run' = run + 1
    /\ session' = load_session(disk)
    /\ pc' = "start"
    /\ cmd' = "none"
    /\ recipe_steps' = None
    /\ hook' = NoHook
    /\ calls' = <<>>
    /\ events' = <<>>
    /\ finale' = NotReturned
    /\ UNCHANGED <<disk, ncalls, plan_str>>
    /\ UNCHANGED <<verbosity, python_log_level, auditor_output>>
    /\ UNCHANGED <<output_threshold_bytes, tool_res, spill_writes, stdin>>

Next ==
    \/ \E q \in BOOLEAN : Start(q)
    \/ \E ok \in BOOLEAN, steps \in Recipes \cup {<<>>}, safe \in BOOLEAN :
          Planning(ok, steps, safe)
    \/ StorePlan
    \/ StoreQuery
    \/ \E line \in CommandLines : ReadCommand(line) /\ UNCHANGED stdin
    \/ HandleExecute1
    \/ HandleExecute2
    \/ HandleExecute3
    \/ HandleExecute4
    \/ \E c \in ToolCalls, safe \in BOOLEAN : HookAudit(c[1], c[2], safe)
    \/ HookAsk
    \/ \E line \in ApprovalLines : HookReply(line) /\ UNCHANGED stdin
    \/ \E outcome \in ToolOutcomes : HookExec(outcome)
    \/ HookIncSub
    \/ HookIncStep
    \/ HookRaiseDev
    \/ \E f \in Finales : ExecutorReturn(f)
    \/ ExecutorRaise
    \/ Restart

Spec == Init /\ [][Next]_vars

\* The process goes on while it can: stdin delivers a line (or its end) to
\* every read, and every call the process makes comes back.
FairSpec == Spec /\ WF_vars(Next)

\* ------------------------------------------------- the store, on any state
\* A fallback action, as set_plan's second argument may carry one.
FallbackAction == [tool |-> "shell_tool", action |-> <<"b">>]

\* Session states of every shape, reachable from a plan or not.
SessionStates ==
    [ conversation_history :
          {<<>>, <<[role |-> "assistant", content |-> <<"shell_tool", "a">>]>>},
      current_recipe : {None} \cup {Some(r) : r \in Recipes},
      fallback_action : {None, Some(FallbackAction)},
      executed_actions :
          {<<>>, <<[tool |-> "shell_tool", action |-> "a", result |-> "ok"]>>},
      original_query : {None, Some("query")},
      is_single_step_plan : BOOLEAN,
      recipe_preapproved : BOOLEAN,
      next_expected_recipe_step_idx : 0..MaxIdx,
      next_expected_subcommand_idx : 0..MaxIdx,
      deviation_occurred : BOOLEAN ]

\* A process holds the state S in memory; nothing is stored yet.
StoreInit ==
    /\ session \in SessionStates
    /\ disk = NoStore
    /\ pc = "loaded"
    /\ run = 1
    /\ ncalls = 0
    /\ cmd = "none"
    /\ recipe_steps = None
    /\ plan_str = None
    /\ hook = NoHook
    /\ verbosity = "info"
    /\ python_log_level = set_python_log_level(verbosity)
    /\ auditor_output = None
    /\ output_threshold_bytes = DefaultThreshold
    /\ tool_res = NoResult
    /\ spill_writes = <<>>
    /\ finale = NotReturned
    /\ stdin = NoPipe
    /\ calls = <<>>
    /\ events = <<>>

\* _save_session
StoreSave ==
    /\ pc = "loaded"
    /\ Persist(session)
    /\ pc' = "saved"
    /\ UNCHANGED <<run, ncalls, cmd, recipe_steps, plan_str, hook, calls, events>>
    /\ UNCHANGED <<verbosity, python_log_level, auditor_output>>
    /\ UNCHANGED <<output_threshold_bytes, tool_res, spill_writes, finale, stdin>>

\* A fresh process constructs the AgentSession of the same session_hash.
StoreLoad ==
    /\ pc = "saved"
    /\ session' = load_session(disk)
    /\ run' = run + 1
    /\ pc' = "reloaded"
    /\ UNCHANGED <<disk, ncalls, cmd, recipe_steps, plan_str, hook, calls, events>>
    /\ UNCHANGED <<verbosity, python_log_level, auditor_output>>
    /\ UNCHANGED <<output_threshold_bytes, tool_res, spill_writes, finale, stdin>>

\* session.set_plan(steps, fallback)
StoreSetPlan(steps, fallback) ==
    /\ pc = "reloaded"
    /\ Persist(set_plan(session, steps, fallback))
    /\ pc' = "planned"
    /\ UNCHANGED <<run, ncalls, cmd, recipe_steps, plan_str, hook, calls, events>>
    /\ UNCHANGED <<verbosity, python_log_level, auditor_output>>
    /\ UNCHANGED <<output_threshold_bytes, tool_res, spill_writes, finale, stdin>>

\* ... called again with the arguments of the first call, which the session
\* now holds.
StoreSetPlanAgain ==
    /\ pc = "planned"
    /\ Persist(set_plan(session, RecipeOf(session), session.fallback_action))
    /\ pc' = "planned_twice"
    /\ UNCHANGED <<run, ncalls, cmd, recipe_steps, plan_str, hook, calls, events>>
    /\ UNCHANGED <<verbosity, python_log_level, auditor_output>>
    /\ UNCHANGED <<output_threshold_bytes, tool_res, spill_writes, finale, stdin>>

StoreNext ==
    \/ StoreSave
    \/ StoreLoad
    \/ \E steps \in Recipes \cup {<<>>}, fallback \in {None, Some(FallbackAction)} :
          StoreSetPlan(steps, fallback)
    \/ StoreSetPlanAgain

StoreSpec == StoreInit /\ [][StoreNext]_vars

\* --------------------------------------------------------- the plan parser
\* A planner text is a sequence of symbols: "N" is a newline, "S" the
\* literal [STEP], "a" a character of a command, " " a blank.
TextSymbols == {"N", "S", "a", " "}

Texts == UNION {[1..n -> TextSymbols] : n \in 0..MaxText}

\* The characters str.strip() removes.
IsSpace(c) == c \in {"N", " "}

RECURSIVE lstrip(_)
lstrip(text) ==
    IF text # <<>> /\ IsSpace(Head(text)) THEN lstrip(Tail(text)) ELSE text

RECURSIVE rstrip(_)
rstrip(text) ==
    IF text # <<>> /\ IsSpace(text[Len(text)])
    THEN rstrip(SubSeq(text, 1, Len(text) - 1))
    ELSE text

\* str.strip()
str_strip(text) == rstrip(lstrip(text))

\* delimiter_pattern at position i of the text: the length of the match of
\*   \n\[STEP\]\n | ^\[STEP\]\n | \n\[STEP\]$
\* that starts there, 0 when none does.
delimiter_match(text, i) ==
    IF /\ i + 2 <= Len(text)
       /\ text[i] = "N" /\ text[i + 1] = "S" /\ text[i + 2] = "N"
    THEN 3
    ELSE IF i = 1 /\ Len(text) >= 2 /\ text[1] = "S" /\ text[2] = "N"
    THEN 2
    ELSE IF i + 1 = Len(text) /\ text[i] = "N" /\ text[i + 1] = "S"
    THEN 2
    ELSE 0

\* re.split(delimiter_pattern, text) from position i on, the current segment
\* having started at `from`: the matches are taken left to right, and the
\* search goes on after the end of each match.
RECURSIVE re_split(_, _, _)
re_split(text, i, from) ==
    IF i > Len(text)
    THEN <<SubSeq(text, from, Len(text))>>
    ELSE IF delimiter_match(text, i) > 0
    THEN <<SubSeq(text, from, i - 1)>>
           \o re_split(text, i + delimiter_match(text, i),
                        i + delimiter_match(text, i))
    ELSE re_split(text, i + 1, from)

\* [s.strip() for s in raw_segments if s.strip()]
processed_segments(raw_segments) ==
    SelectSeq([k \in 1..Len(raw_segments) |-> str_strip(raw_segments[k])],
              LAMBDA s : s # <<>>)

\* parse_plan: the recipe steps of a planner text (the description and the
\* expected outcome of a step are left out; the fallback is always None).
parse_plan(text) ==
    LET segments == processed_segments(re_split(str_strip(text), 1, 1))
    IN [k \in 1..Len(segments) |-> [tool |-> "shell_tool", action |-> segments[k]]]

\* The planner has returned its text.
ParseInit ==
    /\ plan_str \in {Some(text) : text \in Texts}
    /\ pc = "parse"
    /\ disk = NoStore
    /\ session = load_session(NoStore)
    /\ run = 1
    /\ ncalls = 0
    /\ cmd = "none"
    /\ recipe_steps = None
    /\ hook = NoHook
    /\ verbosity = "info"
    /\ python_log_level = set_python_log_level(verbosity)
    /\ auditor_output = None
    /\ output_threshold_bytes = DefaultThreshold
    /\ tool_res = NoResult
    /\ spill_writes = <<>>
    /\ finale = NotReturned
    /\ stdin = NoPipe
    /\ calls = <<>>
    /\ events = <<>>

\* create_and_audit_plan: self._parse_plan(plan_str)
ParsePlan ==
    /\ pc = "parse"
    /\ recipe_steps' = Some(parse_plan(plan_str[1]))
    /\ pc' = "validate"
    /\ UNCHANGED <<session, disk, run, ncalls, cmd, plan_str, hook, calls, events>>
    /\ UNCHANGED <<verbosity, python_log_level, auditor_output>>
    /\ UNCHANGED <<output_threshold_bytes, tool_res, spill_writes, finale, stdin>>

\* _validate_plan: an empty plan (there is never a fallback) is reported
\* with error and unsafe, and the process exits with status 1.
ValidatePlan ==
    /\ pc = "validate"
    /\ IF recipe_steps[1] = <<>>
       THEN /\ events' = emit(emit(events, "error", "", 0), "unsafe", "", 0)
            /\ pc' = "exit_failure"
       ELSE /\ pc' = "audit"
            /\ UNCHANGED events
    /\ UNCHANGED <<session, disk, run, ncalls, cmd, recipe_steps, plan_str, hook, calls>>
    /\ UNCHANGED <<verbosity, python_log_level, auditor_output>>
    /\ UNCHANGED <<output_threshold_bytes, tool_res, spill_writes, finale, stdin>>

\* _audit_initial_action: an unsafe first action is reported with unsafe,
\* and the process exits with status 0.
AuditInitialAction(safe) ==
    /\ pc = "audit"
    /\ IF ~audit_passes(safe)
       THEN /\ events' = emit(events, "unsafe", "", 0)
            /\ pc' = "exited"
       ELSE /\ pc' = "store_plan"
            /\ UNCHANGED events
    /\ UNCHANGED <<session, disk, run, ncalls, cmd, recipe_steps, plan_str, hook, calls>>
    /\ UNCHANGED <<verbosity, python_log_level, auditor_output>>
    /\ UNCHANGED <<output_threshold_bytes, tool_res, spill_writes, finale, stdin>>

ParseNext ==
    \/ ParsePlan
    \/ ValidatePlan
    \/ \E safe \in BOOLEAN : AuditInitialAction(safe)
    \/ StorePlan
    \/ StoreQuery

ParseSpec == ParseInit /\ [][ParseNext]_vars

\* ------------------------------------------------ the emitter, on any type
\* main() has parsed its arguments; the emitter holds its default level.
EmitInit ==
    /\ verbosity \in VerbosityArgs
    /\ python_log_level = LogLevel.INFO
    /\ auditor_output = None
    /\ output_threshold_bytes = DefaultThreshold
    /\ tool_res = NoResult
    /\ spill_writes = <<>>
    /\ finale = NotReturned
    /\ stdin = NoPipe
    /\ pc = "configure"
    /\ disk = NoStore
    /\ session = BlankSession
    /\ run = 1
    /\ ncalls = 0
    /\ cmd = "none"
    /\ recipe_steps = None
    /\ plan_str = None
    /\ hook = [name |-> "", action_str |-> "", safe |-> FALSE,
               is_current_action_expected_by_recipe |-> FALSE,
               should_request_approval |-> TRUE, resp |-> "none", status |-> ""]
    /\ calls = <<>>
    /\ events = <<>>

\* main: set_python_log_level(args.verbosity)
SetLevel ==
    /\ pc = "configure"
    /\ python_log_level' = set_python_log_level(verbosity)
    /\ pc' = "idle"
    /\ UNCHANGED <<session, disk, run, ncalls, cmd, recipe_steps, plan_str,
                   verbosity, auditor_output, hook, calls, events>>
    /\ UNCHANGED <<output_threshold_bytes, tool_res, spill_writes, finale, stdin>>

\* Some component calls emit with msg_type.
CallEmit(msg_type) ==
    /\ pc = "idle"
    /\ Len(events) < MaxEmits
    /\ pc' = msg_type
    /\ UNCHANGED <<session, disk, run, ncalls, cmd, recipe_steps, plan_str,
                   verbosity, python_log_level, auditor_output, hook, calls, events>>
    /\ UNCHANGED <<output_threshold_bytes, tool_res, spill_writes, finale, stdin>>

\* emit(msg_type, data): the record is printed, or filtered.
Emit ==
    /\ pc \in MsgTypes
    /\ events' = IF emit_writes(pc, python_log_level)
                 THEN emit(events, pc, "", 0)
                 ELSE events
    /\ pc' = "idle"
    /\ UNCHANGED <<session, disk, run, ncalls, cmd, recipe_steps, plan_str,
                   verbosity, python_log_level, auditor_output, hook, calls>>
    /\ UNCHANGED <<output_threshold_bytes, tool_res, spill_writes, finale, stdin>>

EmitNext ==
    \/ SetLevel
    \/ \E msg_type \in MsgTypes : CallEmit(msg_type)
    \/ Emit

EmitSpec == EmitInit /\ [][EmitNext]_vars

\* ------------------------------------- the audit gate, on any auditor reply
\* execute_single_action was handled for a stored two-step plan; the
\* executor is about to call a proxy.
AuditInit ==
    /\ session = increment_recipe_step(
                     set_original_query(
                        set_plan(BlankSession,
                                 <<RecipeStep(<<"a">>), RecipeStep(<<"b", " a">>)>>,
                                 None), "query"))
    /\ disk = save_session(NoStore, session)
    /\ pc = "executor"
    /\ run = 1
    /\ ncalls = 0
    /\ cmd = "execute_single_action"
    /\ recipe_steps = None
    /\ plan_str = None
    /\ hook = NoHook
    /\ verbosity = "info"
    /\ python_log_level = LogLevel.INFO
    /\ auditor_output \in {Some(out) : out \in AuditorOutputs}
    /\ output_threshold_bytes = DefaultThreshold
    /\ tool_res = NoResult
    /\ spill_writes = <<>>
    /\ finale = NotReturned
    /\ stdin = NoPipe
    /\ calls = <<>>
    /\ events = <<>>

\* _around_hook up to the audit gate, on the verdict audit_request builds
\* from what the auditor did.
AuditedCall(name, action_str) ==
    HookAudit(name, action_str, audit_request(auditor_output[1]).safe)

AuditNext ==
    \/ \E c \in ToolCalls : AuditedCall(c[1], c[2])
    \/ HookAsk
    \/ \E line \in ApprovalLines : HookReply(line) /\ UNCHANGED stdin
    \/ \E outcome \in ToolOutcomes : HookExec(outcome)
    \/ HookIncSub
    \/ HookIncStep
    \/ HookRaiseDev
    \/ \E f \in Finales : ExecutorReturn(f)

AuditSpec == AuditInit /\ [][AuditNext]_vars

\* ------------------------------------------- large outputs of the tools
\* Bytes of a tool's output: "x" for a printing character, " " for white
\* space.
OutChars == {"x", " "}

\* What the underlying tool returns: None, or a string.
ToolResults ==
    {NoResult}
    \cup {[kind |-> "str", text |-> text] :
              text \in UNION {[1..n -> OutChars] : n \in 0..MaxOut}}

\* What the file system does with a spill: the file is written, write_bytes
\* raises, or the directory cannot be made.
WriteOutcomes == {"written", "write_fails", "mkdir_fails"}

\* Whether _around_hook takes the output to the spill step: a string that
\* is not blank (nor the no-output notice, which no text here is), with a
\* positive threshold below its length in bytes.
spills(res, threshold) ==
    /\ res.kind = "str"
    /\ str_strip(res.text) # <<>>
    /\ threshold > 0
    /\ Len(res.text) > threshold

\* Mutant: the spill file is named after the tool alone.
file_name_by_tool(s, tool_name) == <<1, tool_name>>

\* The spill file's name: the turn index plus one, and the tool's name.
file_name(s, tool_name) == <<Len(s.executed_actions) + 1, tool_name>>

\* str(res), or "completed" for None.
full_output(res) ==
    IF res.kind = "none"
    THEN [kind |-> "completed", text |-> <<>>, file |-> None]
    ELSE [kind |-> "output", text |-> res.text, file |-> None]

\* The sentinel message that names the spill file.
sentinel(name) == [kind |-> "sentinel", text |-> <<>>, file |-> Some(name)]

\* result_str: the sentinel when the output was spilled and written, the
\* full output otherwise.
result_str(res, threshold, s, tool_name, w) ==
    IF spills(res, threshold) /\ w = "written"
    THEN sentinel(file_name(s, tool_name))
    ELSE full_output(res)

\* A record with the output field of the result event.
EvOut(type, status, inv, output) ==
    [type |-> type, status |-> status, inv |-> inv, output |-> output]

\* The increments of a planned invocation (increment_subcommand_idx, then
\* increment_recipe_step when the step is finished).
advance_cursor(s) ==
    IF step_finished(increment_subcommand_idx(s))
    THEN increment_recipe_step(increment_subcommand_idx(s))
    ELSE increment_subcommand_idx(s)

\* A plan is stored and the process waits for its command, started with
\* some output threshold.
SpillInit ==
    /\ \E r \in {<<RecipeStep(<<"a">>)>>,
                  <<RecipeStep(<<"a">>), RecipeStep(<<"b", " a">>)>>} :
          session = set_original_query(set_plan(BlankSession, r, None), "query")
    /\ disk = save_session(NoStore, session)
    /\ pc = "await_cmd"
    /\ run = 1
    /\ ncalls = 0
    /\ cmd = "none"
    /\ recipe_steps = None
    /\ plan_str = None
    /\ hook = NoHook
    /\ verbosity = "info"
    /\ python_log_level = set_python_log_level(verbosity)
    /\ auditor_output = None
    /\ output_threshold_bytes \in 0..MaxThreshold
    /\ tool_res = NoResult
    /\ spill_writes = <<>>
    /\ finale = NotReturned
    /\ stdin = NoPipe
    /\ calls = <<>>
    /\ events = <<>>

\* proceed_callable returns.
ToolRuns(res) ==
    /\ pc = "exec"
    /\ tool_res' = res
    /\ pc' = "returned"
    /\ UNCHANGED <<session, disk, run, ncalls, cmd, recipe_steps, plan_str, hook,
                   calls, events>>
    /\ UNCHANGED <<verbosity, python_log_level, auditor_output>>
    /\ UNCHANGED <<output_threshold_bytes, spill_writes, finale, stdin>>

\* _around_hook after the tool returned: the spill, the executed action, the
\* increments of a planned invocation and the result event.  A directory
\* that cannot be made raises into the except branch of the tool call.
HandleResult(w) ==
    /\ pc = "returned"
    /\ LET spilled == spills(tool_res, output_threshold_bytes)
           name == file_name(session, hook.name)
           result == result_str(tool_res, output_threshold_bytes, session,
                                hook.name, w)
           recorded == add_executed_action(session, hook.name, hook.action_str,
                                           result)
       IN
       IF spilled /\ w = "mkdir_fails"
       THEN /\ Persist(set_deviation_occurred(
                         add_executed_action(session, hook.name, hook.action_str,
                                             "ERROR"), TRUE))
            /\ events' = events \o
                  <<EvOut("error", "", Len(calls), None),
                    EvOut("result", "failure", Len(calls), None)>>
            /\ UNCHANGED spill_writes
       ELSE /\ spill_writes' = IF spilled /\ w = "written"
                               THEN Append(spill_writes, name)
                               ELSE spill_writes
            /\ Persist(IF hook.is_current_action_expected_by_recipe
                       THEN advance_cursor(recorded)
                       ELSE recorded)
            /\ events' = events \o
                  (IF spilled /\ w = "write_fails"
                   THEN <<EvOut("error", "", Len(calls), None)>>
                   ELSE <<>>) \o
                  <<EvOut("result", "success", Len(calls), Some(result))>>
    /\ hook' = NoHook
    /\ tool_res' = NoResult
    /\ pc' = "executor"
    /\ UNCHANGED <<run, ncalls, cmd, recipe_steps, plan_str, calls>>
    /\ UNCHANGED <<verbosity, python_log_level, auditor_output>>
    /\ UNCHANGED <<output_threshold_bytes, finale, stdin>>

SpillNext ==
    \/ \E q \in BOOLEAN : Start(q)
    \/ \E line \in CommandLines : ReadCommand(line) /\ UNCHANGED stdin
    \/ HandleExecute1
    \/ HandleExecute2
    \/ HandleExecute3
    \/ HandleExecute4
    \/ \E c \in ToolCalls, safe \in BOOLEAN : HookAudit(c[1], c[2], safe)
    \/ HookAsk
    \/ \E line \in ApprovalLines : HookReply(line) /\ UNCHANGED stdin
    \/ \E res \in ToolResults : ToolRuns(res)
    \/ \E w \in WriteOutcomes : HandleResult(w)
    \/ \E f \in Finales : ExecutorReturn(f)
    \/ Restart

SpillSpec == SpillInit /\ [][SpillNext]_vars

\* ------------------------------------- a process started on any store
\* Sessions a run may have left in the store: a stored plan, untouched or
\* after a first executed action and a deviation.
StoredSessions ==
    LET planned(r) == set_original_query(set_plan(BlankSession, r, None), "query")
        progressed(r) ==
            set_deviation_occurred(
                add_executed_action(increment_recipe_step(planned(r)),
                                    "shell_tool", "a", "ok"), TRUE)
    IN {planned(r) : r \in Recipes} \cup {progressed(r) : r \in Recipes}

\* What the store may hold for the session_hash: nothing, the JSON file only
\* (the archive write of _save_session failed or the archive is gone), the
\* archive group only, or both, the two written by different saves or the
\* same one.
StoreStates ==
    {NoStore}
    \cup {[json_file |-> Some(json_dumps(payload(s))), h5 |-> None] : s \in StoredSessions}
    \cup {[json_file |-> None, h5 |-> Some(h5_group(s))] : s \in StoredSessions}
    \cup {[json_file |-> Some(json_dumps(payload(j))), h5 |-> Some(h5_group(s))] :
              j \in StoredSessions, s \in StoredSessions}

\* main() is about to construct the AgentSession.
ResumeInit ==
    /\ disk \in StoreStates
    /\ session = BlankSession
    /\ pc = "construct"
    /\ run = 1
    /\ ncalls = 0
    /\ cmd = "none"
    /\ recipe_steps = None
    /\ plan_str = None
    /\ hook = NoHook
    /\ verbosity = "info"
    /\ python_log_level = set_python_log_level(verbosity)
    /\ auditor_output = None
    /\ output_threshold_bytes = DefaultThreshold
    /\ tool_res = NoResult
    /\ spill_writes = <<>>
    /\ finale = NotReturned
    /\ stdin = NoPipe
    /\ calls = <<>>
    /\ events = <<>>

\* AgentSession.__init__: blank fields, then _load_session.
Construct ==
    /\ pc = "construct"
    /\ session' = load_session(disk)
    /\ pc' = "start"
    /\ UNCHANGED <<disk, run, ncalls, cmd, recipe_steps, plan_str, hook, calls, events>>
    /\ UNCHANGED <<verbosity, python_log_level, auditor_output>>
    /\ UNCHANGED <<output_threshold_bytes, tool_res, spill_writes, finale, stdin>>

ResumeNext ==
    \/ Construct
    \/ \E q \in BOOLEAN : Start(q)
    \/ \E ok \in BOOLEAN, steps \in Recipes \cup {<<>>}, safe \in BOOLEAN :
          Planning(ok, steps, safe)
    \/ StorePlan
    \/ StoreQuery
    \/ \E line \in CommandLines : ReadCommand(line) /\ UNCHANGED stdin

ResumeSpec == ResumeInit /\ [][ResumeNext]_vars

\* ------------------------------------------ the two readers of one stdin
\* The front end writes JSON lines to the standard input of the process;
\* _process_commands and a pending approval of _around_hook both take the
\* next line with sys.stdin.readline().
LineTypes == {"user_approval_response", "deny_current_action", "execute_recipe"}

\* A line: a JSON object with a `type` and, or not, a boolean `approved`.
Line(type, approved) == [type |-> type, approved |-> approved]

\* The end of the input (readline gives '') and a line that is not JSON.
EndOfInput == Line("EOF", "absent")
NotJson == Line("badjson", "absent")

PipeLines ==
    {EndOfInput, NotJson}
    \cup {Line(t, a) : t \in LineTypes, a \in {"true", "false", "absent"}}

\* Mutant: the approval wait looks at the type of the line: a line that is
\* not a user_approval_response never approves.
approval_reply_by_type(l) ==
    IF l.type \in {"EOF", "badjson"} THEN l.type
    ELSE IF l.type # "user_approval_response" THEN "denied"
    ELSE IF l.approved = "true" THEN "approved"
    ELSE IF l.approved = "false" THEN "denied"
    ELSE "noflag"

\* What the approval wait makes of a line: resp = json.loads(resp_line),
\* then resp.get("approved", False); `type` is not looked at.
approval_reply(l) ==
    IF l.type \in {"EOF", "badjson"} THEN l.type
    ELSE IF l.approved = "true" THEN "approved"
    ELSE IF l.approved = "false" THEN "denied"
    ELSE "noflag"

\* What the command loop makes of a line: command.get("type"); `approved`
\* is not looked at.
command_type(l) == l.type

\* The line the next readline() returns, or None while it would block.
next_line(p) ==
    IF p.read < Len(p.lines) THEN Some(p.lines[p.read + 1]) ELSE None

\* The pipe after that line was taken.
readline(p) == [p EXCEPT !.read = @ + 1]

\* A process resumed on a stored three-line plan waits for its command;
\* the front end has written nothing yet.
PipeInit ==
    /\ session = set_original_query(
                     set_plan(BlankSession,
                              <<RecipeStep(<<"a">>), RecipeStep(<<"b", " a">>)>>,
                              None), "query")
    /\ disk = save_session(NoStore, session)
    /\ pc = "await_cmd"
    /\ run = 1
    /\ ncalls = 0
    /\ cmd = "none"
    /\ recipe_steps = None
    /\ plan_str = None
    /\ hook = NoHook
    /\ verbosity = "info"
    /\ python_log_level = LogLevel.INFO
    /\ auditor_output = None
    /\ output_threshold_bytes = DefaultThreshold
    /\ tool_res = NoResult
    /\ spill_writes = <<>>
    /\ finale = NotReturned
    /\ stdin = [lines |-> <<>>, read |-> 0]
    /\ calls = <<>>
    /\ events = <<>>

\* The front end writes a line, whatever the process is doing; after it
\* closed the pipe it writes nothing.
FrontEndWrites(l) ==
    /\ Len(stdin.lines) < MaxLines
    /\ stdin.lines # <<>> => stdin.lines[Len(stdin.lines)] # EndOfInput
    /\ stdin' = [stdin EXCEPT !.lines = Append(@, l)]
    /\ UNCHANGED <<session, disk, pc, run, ncalls, cmd, recipe_steps, plan_str,
                   hook, calls, events>>
    /\ UNCHANGED <<verbosity, python_log_level, auditor_output>>
    /\ UNCHANGED <<output_threshold_bytes, tool_res, spill_writes, finale>>

\* The command loop takes the next line.
LoopReadsLine ==
    /\ next_line(stdin) # None
    /\ ReadCommand(IF command_type(next_line(stdin)[1]) \in CommandLines
                   THEN command_type(next_line(stdin)[1])
                   ELSE "unknown")
    /\ stdin' = readline(stdin)

\* The pending approval takes the next line.
ApprovalReadsLine ==
    /\ next_line(stdin) # None
    /\ HookReply(approval_reply(next_line(stdin)[1]))
    /\ stdin' = readline(stdin)

PipeNext ==
    \/ \E l \in PipeLines : FrontEndWrites(l)
    \/ LoopReadsLine
    \/ HandleExecute1
    \/ HandleExecute2
    \/ HandleExecute3
    \/ HandleExecute4
    \/ \E c \in ToolCalls, safe \in BOOLEAN : HookAudit(c[1], c[2], safe)
    \/ HookAsk
    \/ ApprovalReadsLine
    \/ \E outcome \in ToolOutcomes : HookExec(outcome)
    \/ HookIncSub
    \/ HookIncStep
    \/ HookRaiseDev
    \/ \E f \in Finales : ExecutorReturn(f)
    \/ ExecutorRaise

PipeSpec == PipeInit /\ [][PipeNext]_vars

\* ------------------------------------- two processes, one session_hash
\* Two processes are started with the session_hash of a stored session.
\* Here `session` and `pc` hold the in-memory session and the position of
\* each process; the store is shared.
Procs == {"p1", "p2"}

\* The session a first run has stored: a plan and the query.
ConcInit ==
    /\ \E r \in Recipes :
          disk = save_session(NoStore,
                    set_original_query(set_plan(BlankSession, r, None), "query"))
    /\ session = [p \in Procs |-> BlankSession]
    /\ pc = [p \in Procs |-> "start"]
    /\ run = 1
    /\ ncalls = 0
    /\ cmd = "none"
    /\ recipe_steps = None
    /\ plan_str = None
    /\ hook = NoHook
    /\ verbosity = "info"
    /\ python_log_level = set_python_log_level(verbosity)
    /\ auditor_output = None
    /\ output_threshold_bytes = DefaultThreshold
    /\ tool_res = NoResult
    /\ spill_writes = <<>>
    /\ finale = NotReturned
    /\ stdin = NoPipe
    /\ calls = <<>>
    /\ events = <<>>

\* AgentSession.__init__ in process p: the session is loaded once.
ConcOpen(p) ==
    /\ pc[p] = "start"
    /\ session' = [session EXCEPT ![p] = load_session(disk)]
    /\ pc' = [pc EXCEPT ![p] = "open"]
    /\ UNCHANGED <<disk, run, ncalls, cmd, recipe_steps, plan_str, hook, calls, events>>
    /\ UNCHANGED <<verbosity, python_log_level, auditor_output>>
    /\ UNCHANGED <<output_threshold_bytes, tool_res, spill_writes, finale, stdin>>

\* A mutator of process p: its in-memory session becomes s, and
\* _save_session rewrites the store from it.
ConcPersist(p, s) ==
    /\ pc[p] = "open"
    /\ ncalls < MaxWrites
    /\ ncalls' = ncalls + 1
    /\ session' = [session EXCEPT ![p] = s]
    /\ disk' = save_session(disk, s)
    /\ UNCHANGED <<pc, run, cmd, recipe_steps, plan_str, hook, calls, events>>
    /\ UNCHANGED <<verbosity, python_log_level, auditor_output>>
    /\ UNCHANGED <<output_threshold_bytes, tool_res, spill_writes, finale, stdin>>

ConcAddToHistory(p) ==
    ConcPersist(p, add_to_history(session[p], "assistant", <<"shell_tool", "a">>))

ConcAddExecutedAction(p) ==
    ConcPersist(p, add_executed_action(session[p], "shell_tool", "a", "ok"))

ConcSetDeviation(p) ==
    ConcPersist(p, set_deviation_occurred(session[p], TRUE))

ConcIncrementStep(p) ==
    ConcPersist(p, increment_recipe_step(session[p]))

ConcNext ==
    \E p \in Procs :
        \/ ConcOpen(p)
        \/ ConcAddToHistory(p)
        \/ ConcAddExecutedAction(p)
        \/ ConcSetDeviation(p)
        \/ ConcIncrementStep(p)

ConcSpec == ConcInit /\ [][ConcNext]_vars

\* ---------------------------------------------------------------- helpers
\* Whether the current proxy invocation emitted request_approval.
ApprovalRequested ==
    \E i \in 1..Len(events) :
        events[i].type = "request_approval" /\ events[i].inv = Len(calls)

\* ------------------------------------------------------------------ claims
\* C1: every entry the proxy appends to executed_actions (a result or an
\* ERROR entry) is for the action of the current invocation, the auditor
\* returned safe = true for it, and the invocation was auto-approved or
\* request_approval was emitted and a reply with approved = true was read.
C1_ExecuteIsGated ==
    [][Len(session'.executed_actions) > Len(session.executed_actions) =>
          /\ pc = "exec"
          /\ session'.executed_actions[Len(session'.executed_actions)].action
                = hook.action_str
          /\ hook.safe
          /\ \/ ~hook.should_request_approval
             \/ ApprovalRequested /\ hook.resp = "approved"
      ]_vars

\* An approved invocation whose tool raised has appended its ERROR entry.
C1_Witness ==
    /\ pc = "raise_dev"
    /\ hook.should_request_approval
    /\ hook.resp = "approved"
    /\ session.executed_actions # <<>>
    /\ session.executed_actions[Len(session.executed_actions)].result = "ERROR"

\* The cursor and the step it points at.
step_idx == session.next_expected_recipe_step_idx
subcmd_idx == session.next_expected_subcommand_idx

\* C2 as stated: once deviation_occurred is true it is never false again,
\* whatever proxy invocations, front-end commands and restarts follow.
C2_DeviationAbsorbing ==
    [][session.deviation_occurred => session'.deviation_occurred]_vars

\* C2 as amended: deviation_occurred goes from true to false only in the
\* last mutator call of the execute_recipe and execute_single_action
\* handlers; proxy invocations, the other commands, execute_fallback and
\* restarts that resume the session keep it true.
C2_DeviationResetOnlyByExecute ==
    [][session.deviation_occurred /\ ~session'.deviation_occurred =>
          /\ pc = "h4"
          /\ cmd \in {"execute_recipe", "execute_single_action"}
      ]_vars

\* A resumed run is about to reset a deviation an earlier run recorded.
C2_Witness ==
    /\ run > 1
    /\ pc = "h4"
    /\ cmd \in {"execute_recipe", "execute_single_action"}
    /\ session.deviation_occurred
    /\ session.executed_actions # <<>>

\* C3: wherever a recipe is present, 0 <= step_idx <= len(current_recipe).
C3_StepIdxInRange ==
    session.current_recipe # None =>
        /\ 0 <= step_idx
        /\ step_idx <= Len(RecipeOf(session))

\* C4: while step_idx < len(current_recipe), 0 <= subcmd_idx <= the number
\* of lines of the step at the cursor.
C4_SubcmdIdxInRange ==
    step_idx < Len(RecipeOf(session)) =>
        /\ 0 <= subcmd_idx
        /\ subcmd_idx <= Len(RecipeOf(session)[step_idx + 1].action)

\* The last line of a two-line step was run: the subcommand index equals
\* the step's number of lines until the step index is incremented.
C4_Witness ==
    /\ pc = "inc_step"
    /\ step_idx < Len(RecipeOf(session))
    /\ Len(RecipeOf(session)[step_idx + 1].action) = 2
    /\ subcmd_idx = 2

\* C5: step_idx never decreases, every increment of step_idx resets
\* subcmd_idx to 0, and subcmd_idx never decreases at any other time.
C5_CursorMonotone ==
    [][ /\ session'.next_expected_recipe_step_idx >= step_idx
        /\ session'.next_expected_recipe_step_idx > step_idx =>
              session'.next_expected_subcommand_idx = 0
        /\ session'.next_expected_subcommand_idx < subcmd_idx =>
              session'.next_expected_recipe_step_idx > step_idx
      ]_vars

\* A resumed run holds a cursor that the proxy moved through a two-line
\* step (subcommand index 0, 1, 2 and back to 0 with the step increment).
C5_Witness ==
    /\ run > 1
    /\ pc = "await_cmd"
    /\ step_idx = 2
    /\ subcmd_idx = 0
    /\ Len(session.executed_actions) = 2
    /\ session.recipe_preapproved
    /\ ~session.deviation_occurred

\* C6: recipe_preapproved and is_single_step_plan are never both true, in
\* memory between mutator calls or in the store.
C6_FlagsExclusive ==
    /\ ~(session.recipe_preapproved /\ session.is_single_step_plan)
    /\ disk.h5 # None =>
          ~(disk.h5[1].attrs.recipe_preapproved /\ disk.h5[1].attrs.is_single_step_plan)
    /\ disk.json_file # None =>
          ~(json_loads(disk.json_file[1]).recipe_preapproved
            /\ json_loads(disk.json_file[1]).is_single_step_plan)

\* C7 as stated: recipe_preapproved implies more than one step and no
\* fallback; is_single_step_plan implies exactly one step.
C7_FlagsMatchPlan ==
    /\ session.recipe_preapproved =>
          Len(RecipeOf(session)) > 1 /\ session.fallback_action = None
    /\ session.is_single_step_plan => Len(RecipeOf(session)) = 1

\* No execute_* command has been handled yet in this session's first run.
BeforeFirstExecute == run = 1 /\ pc \in {"store_query", "await_cmd", "h1"}

\* C7 as amended: recipe_preapproved implies a stored recipe of at least one
\* step and no fallback; is_single_step_plan implies a stored recipe of at
\* least one step; and until the first execute_* command is handled
\* recipe_preapproved is false and is_single_step_plan holds exactly when
\* the recipe has one step.
C7_FlagsMatchPlanUntilExecute ==
    /\ session.recipe_preapproved =>
          Len(RecipeOf(session)) >= 1 /\ session.fallback_action = None
    /\ session.is_single_step_plan => Len(RecipeOf(session)) >= 1
    /\ BeforeFirstExecute =>
          /\ ~session.recipe_preapproved
          /\ session.is_single_step_plan = (Len(RecipeOf(session)) = 1)

\* execute_recipe was handled for a one-step plan, execute_single_action
\* for a plan of several steps.
C7_Witness ==
    /\ pc = "executor"
    /\ \/ session.recipe_preapproved /\ Len(RecipeOf(session)) = 1
       \/ session.is_single_step_plan /\ Len(RecipeOf(session)) > 1

\* The executor has just been started by the handler of `cmd`.
ExecutorInvoked == pc = "executor" /\ calls = <<>>

\* C8: when execute_recipe starts the executor, recipe_preapproved is true,
\* is_single_step_plan and deviation_occurred are false and the cursor is
\* (0, 0).
C8_ExecuteRecipeState ==
    ExecutorInvoked /\ cmd = "execute_recipe" =>
        /\ session.recipe_preapproved
        /\ ~session.is_single_step_plan
        /\ ~session.deviation_occurred
        /\ step_idx = 0
        /\ subcmd_idx = 0

\* The lines of a recipe, in order.
RECURSIVE Flat(_)
Flat(steps) ==
    IF steps = <<>> THEN <<>> ELSE Head(steps).action \o Flat(Tail(steps))

\* The executor has issued the recipe's subcommands in order so far, with
\* shell_tool, every audit was safe and no tool raised.
FollowsRecipe ==
    /\ Len(calls) <= Len(Flat(RecipeOf(session)))
    /\ \A i \in 1..Len(calls) :
          /\ calls[i].tool = "shell_tool"
          /\ calls[i].safe
          /\ strip(calls[i].action) = strip(Flat(RecipeOf(session))[i])
    /\ \A i \in 1..Len(session.executed_actions) :
          session.executed_actions[i].result # "ERROR"

HasEvent(type, status) ==
    \E i \in 1..Len(events) : events[i].type = type /\ events[i].status = status

\* The number of result events of this run's proxy invocations.
ResultEvents == Cardinality({i \in 1..Len(events) : events[i].type = "result"})

\* C9: after execute_recipe in the run that stored the plan, an executor
\* that follows the recipe gets no request_approval, has a result event for
\* every finished invocation, and the run ends with final_summary success.
C9_FollowedRecipeIsAutoApproved ==
    run = 1 /\ cmd = "execute_recipe" /\ FollowsRecipe =>
        /\ ~HasEvent("request_approval", "")
        /\ pc \in {"executor", "exited"} => ResultEvents = Len(calls)
        /\ pc = "exited" /\ ~HasEvent("final_summary", "cancelled") =>
              HasEvent("final_summary", "success")

\* C10: for a one-step, one-line plan started with execute_single_action,
\* a first invocation that matches the line reaches the tool without
\* request_approval, and a second invocation reaches the tool only after
\* request_approval.
C10_SingleActionFirstCallOnly ==
    /\ run = 1
    /\ cmd = "execute_single_action"
    /\ Len(RecipeOf(session)) = 1
    /\ Len(Flat(RecipeOf(session))) = 1
    /\ calls # <<>>
    /\ calls[1].tool = "shell_tool"
    /\ calls[1].safe
    /\ strip(calls[1].action) = strip(Flat(RecipeOf(session))[1])
    => /\ Len(calls) = 1 => pc \notin {"ask", "await_approval"} /\ ~ApprovalRequested
       /\ Len(calls) = 2 /\ pc = "exec" => ApprovalRequested

\* The last record this run wrote.
LastEvent == events[Len(events)]

\* The scenario of C11: execute_recipe was handled in the run that stored
\* the one-step plan with the two lines "a" and "b", and the executor's
\* first call is shell_tool with "a", audited safe.
C11_Scenario ==
    /\ run = 1
    /\ cmd = "execute_recipe"
    /\ RecipeOf(session) = <<RecipeStep(<<"a", " b">>)>>
    /\ calls # <<>>
    /\ calls[1] = [tool |-> "shell_tool", action |-> "a", safe |-> TRUE]

\* C11: in that scenario the first invocation is auto-approved and, when
\* the command succeeds, ends with a success result; a second, audited-safe
\* invocation that is not the line "b" emits request_approval and leaves
\* deviation_occurred true.  In general an audited-safe invocation whose
\* tool or trimmed action differs from the expected subcommand never
\* reaches the tool without request_approval, and sets deviation_occurred.
C11_DeviationNeedsApproval ==
    /\ C11_Scenario /\ Len(calls) = 1 =>
          /\ pc \notin {"ask", "await_approval"}
          /\ ~ApprovalRequested
          /\ pc = "executor" /\ session.executed_actions # <<>>
                /\ session.executed_actions[1].result = "ok" =>
                   LastEvent = Ev("result", "success", 1)
    /\ C11_Scenario /\ Len(calls) = 2 /\ calls[2].safe
          /\ ~(calls[2].tool = "shell_tool" /\ strip(calls[2].action) = "b") =>
          /\ pc = "exec" => ApprovalRequested
          /\ session.deviation_occurred
    /\ pc \in {"ask", "await_approval", "exec"}
          /\ get_expected_subcommand(session) # None
          /\ ~(hook.name = "shell_tool"
                /\ strip(hook.action_str) = get_expected_subcommand(session)[1]) =>
          /\ pc = "exec" => ApprovalRequested
          /\ session.deviation_occurred

\* The scenario of C12: an earlier run of the session ran the line of the
\* first step of a three-step recipe, and nothing else; this run resumed
\* the session and was given execute_recipe.
C12_Scenario ==
    /\ run > 1
    /\ cmd = "execute_recipe"
    /\ Len(RecipeOf(session)) = 3
    /\ ncalls = Len(calls) + 1
    /\ session.executed_actions # <<>>
    /\ session.executed_actions[1].action = Flat(RecipeOf(session))[1]
    /\ session.executed_actions[1].result = "ok"

\* C12: in that scenario the cursor is (1, 0) when the executor starts, and
\* a first invocation that matches the first line of step 2 is
\* auto-approved.
C12_ResumeAtSecondStep ==
    /\ C12_Scenario /\ ExecutorInvoked =>
          step_idx = 1 /\ subcmd_idx = 0
    /\ C12_Scenario /\ Len(calls) = 1 /\ calls[1].safe
          /\ calls[1].tool = "shell_tool"
          /\ strip(calls[1].action) = strip(RecipeOf(session)[2].action[1]) =>
          pc \notin {"ask", "await_approval"} /\ ~ApprovalRequested

\* The positions in `events` of the unsafe records of proxy invocations.
UnsafeVerdicts ==
    {i \in 1..Len(events) : events[i].type = "unsafe" /\ events[i].inv > 0}

\* C13: after a proxy invocation's unsafe verdict no later invocation of the
\* run emits request_approval or runs its tool (no success / failure result
\* follows, and no invocation is past its tool call).
C13_UnsafeTerminatesRun ==
    \A i \in UnsafeVerdicts :
        /\ pc \notin {"inc_sub", "inc_step", "raise_dev"}
        /\ \A j \in (i + 1)..Len(events) :
              events[j].type \notin {"request_approval", "result"}

\* The positions in `events` of the cancelled results (the reply to a
\* pending request_approval was {approved: false}).
Denials ==
    {i \in 1..Len(events) :
        events[i].type = "result" /\ events[i].status = "cancelled"}

\* C14: a cancelled result is followed by deny_current_action and then by a
\* final_summary with status cancelled, with which the process exits; no
\* tool runs after the denial.
C14_DenialEndsRun ==
    \A i \in Denials :
        /\ Len(events) > i
        /\ events[i + 1].type = "deny_current_action"
        /\ Len(events) > i + 1 =>
              events[i + 2] = Ev("final_summary", "cancelled", 0)
        /\ pc = "exited" => Len(events) = i + 2
        /\ pc \notin {"inc_sub", "inc_step", "raise_dev"}

C17_SetPlanIdempotent ==
    [][ /\ pc = "reloaded" =>
              /\ session'.conversation_history = session.conversation_history
              /\ session'.executed_actions = session.executed_actions
              /\ session'.original_query = session.original_query
              /\ session'.current_recipe # None
              /\ session'.next_expected_recipe_step_idx = 0
              /\ session'.next_expected_subcommand_idx = 0
              /\ ~session'.recipe_preapproved
              /\ ~session'.deviation_occurred
              /\ session'.is_single_step_plan =
                    (Len(RecipeOf(session')) = 1 /\ session'.fallback_action = None)
        /\ pc = "planned" => session' = session /\ disk' = disk
      ]_vars

\* set_plan was called twice on a session with a history, an executed
\* action and a query; the plan has one step and a fallback.
C17_Witness ==
    /\ pc = "planned_twice"
    /\ session.conversation_history # <<>>
    /\ session.executed_actions # <<>>
    /\ session.original_query # None
    /\ Len(RecipeOf(session)) = 1
    /\ session.fallback_action # None
    /\ ~session.is_single_step_plan

\* The action strings of a plan's steps.
actions_of(steps) == [k \in 1..Len(steps) |-> steps[k].action]

\* The action strings joined with "\n[STEP]\n".
RECURSIVE join_with_step(_)
join_with_step(actions) ==
    IF actions = <<>> THEN <<>>
    ELSE IF Len(actions) = 1 THEN actions[1]
    ELSE actions[1] \o <<"N", "S", "N">> \o join_with_step(Tail(actions))

\* C18: joining the action strings of the parsed steps with "\n[STEP]\n"
\* and parsing the joined text yields the same action strings.
C18_ParseJoinInverse ==
    pc = "validate" =>
        actions_of(parse_plan(join_with_step(actions_of(recipe_steps[1]))))
            = actions_of(recipe_steps[1])

\* Whether a text consists of [STEP] lines only, with blank lines and
\* blanks around them: at least one [STEP], no command character, no two
\* [STEP] on one line.
OnlyDelimiters(text) ==
    /\ \E k \in 1..Len(text) : text[k] = "S"
    /\ \A k \in 1..Len(text) : text[k] # "a"
    /\ \A k, l \in 1..Len(text) :
          k < l /\ text[k] = "S" /\ text[l] = "S" =>
              \E m \in (k + 1)..(l - 1) : text[m] = "N"

\* C19: a text of [STEP] lines only parses to the empty plan; error and
\* then unsafe are emitted and nothing else, no plan is stored, and the
\* process exits with a failure status.
C19_OnlyDelimitersIsNoPlan ==
    OnlyDelimiters(plan_str[1]) =>
        /\ pc = "validate" => recipe_steps[1] = <<>>
        /\ pc \notin {"parse", "validate"} =>
              /\ pc = "exit_failure"
              /\ events = <<Ev("error", "", 0), Ev("unsafe", "", 0)>>
              /\ session.current_recipe = None
              /\ disk = NoStore

\* The records proxy invocation k of this run wrote, each named by its type
\* (a result by its status).
InvocationEvents(evs, k) ==
    LET own == SelectSeq(evs, LAMBDA e : e.inv = k)
    IN [i \in 1..Len(own) |->
            IF own[i].type = "result" THEN own[i].status ELSE own[i].type]

\* The place of a record in the order of an invocation: unsafe,
\* request_approval, cancelled result, result with the final status
\* (0: error and deny_current_action, which the order does not mention).
Rank(tag) ==
    CASE tag = "unsafe" -> 1
      [] tag = "request_approval" -> 2
      [] tag = "cancelled" -> 3
      [] tag \in {"success", "failure"} -> 4
      [] OTHER -> 0

\* The records of one invocation are in order, request_approval does not
\* follow unsafe, and no final result follows unsafe or a cancelled result.
InOrder(tags) ==
    \A i, j \in 1..Len(tags) :
        i < j /\ Rank(tags[i]) > 0 /\ Rank(tags[j]) > 0 =>
            /\ Rank(tags[i]) < Rank(tags[j])
            /\ tags[i] = "unsafe" => tags[j] # "request_approval"
            /\ tags[i] \in {"unsafe", "cancelled"} =>
                  tags[j] \notin {"success", "failure"}

\* C20: the records of every proxy invocation are in the order unsafe,
\* request_approval, cancelled result, final result; the approval reply is
\* read right after request_approval; the tool is called only in an
\* invocation without unsafe and without a cancelled result, after the
\* reply when approval was requested; and a success or failure result is
\* written only at or after the tool call.
C20_InvocationOrder ==
    [][ /\ \A k \in 1..Len(calls') : InOrder(InvocationEvents(events', k))
        /\ pc' = "await_approval" =>
              events'[Len(events')] = Ev("request_approval", "", Len(calls'))
        /\ pc' = "exec" =>
              LET tags == InvocationEvents(events', Len(calls')) IN
              /\ \A i \in 1..Len(tags) : tags[i] = "request_approval"
              /\ tags # <<>> => hook'.resp # "none"
        /\ \A k \in 1..Len(calls') :
              LET before == InvocationEvents(events, k)
                  after == InvocationEvents(events', k)
              IN (\E i \in 1..Len(after) : after[i] \in {"success", "failure"})
                  /\ ~(\E i \in 1..Len(before) : before[i] \in {"success", "failure"})
                     => /\ pc \in {"exec", "inc_sub", "inc_step"}
                        /\ k = Len(calls)
                        /\ Len(session'.executed_actions) > Len(session.executed_actions)
                           \/ pc \in {"inc_sub", "inc_step"}
      ]_vars

\* After an invocation that ended with unsafe, a second one asked for
\* approval, ran its tool and wrote its final result.
C20_Witness ==
    /\ Len(calls) = 2
    /\ pc = "executor"
    /\ InvocationEvents(events, 1) = <<"unsafe", "deny_current_action">>
    /\ InvocationEvents(events, 2) = <<"request_approval", "success">>

\* C21: the cursor changes only in the steps of a proxy invocation that
\* matched the expected subcommand and whose tool ran successfully; every
\* other step (unsafe, denied, errored and deviating invocations, front-end
\* commands, restarts) leaves both indices as they are.
C21_CursorMovesOnlyOnPlannedSuccess ==
    [][ \/ session'.next_expected_recipe_step_idx # step_idx
        \/ session'.next_expected_subcommand_idx # subcmd_idx
        => /\ pc \in {"inc_sub", "inc_step"}
           /\ hook.is_current_action_expected_by_recipe
           /\ hook.status = "success"
      ]_vars

\* Whether sequence a is a prefix of sequence b.
IsPrefix(a, b) == Len(a) <= Len(b) /\ SubSeq(b, 1, Len(a)) = a

\* C22: with two processes on one session_hash no persisted mutation is
\* lost or undone by a later write: in the store the history and the
\* executed actions only grow, the deviation flag stays set and the step
\* index does not go back.
C22_SerialWrites ==
    [][ LET old == load_session(disk)
            new == load_session(disk')
        IN /\ IsPrefix(old.conversation_history, new.conversation_history)
           /\ IsPrefix(old.executed_actions, new.executed_actions)
           /\ old.deviation_occurred => new.deviation_occurred
           /\ old.next_expected_recipe_step_idx <= new.next_expected_recipe_step_idx
      ]_vars

\* The severity of a categorised log type: debug < info < warn.
Severity(msg_type) ==
    CASE msg_type = "debug_log" -> 1
      [] msg_type = "info_log" -> 2
      [] msg_type = "warn_log" -> 3

\* The threshold a verbosity stands for; none is above every severity.
Threshold(v) ==
    CASE v = "debug" -> 1
      [] v = "info" -> 2
      [] v = "warn" -> 3
      [] v = "none" -> 4

\* C23: at verbosity debug, info, warn or none, a debug_log, info_log or
\* warn_log event is written iff its severity is not below the verbosity,
\* and an event of any other type is always written.
C23_LogFilter ==
    [][ (/\ pc \in MsgTypes
         /\ verbosity \in {"debug", "info", "warn", "none"}) =>
          (IF pc \in {"debug_log", "info_log", "warn_log"}
              /\ Severity(pc) < Threshold(verbosity)
           THEN events' = events
           ELSE events' = Append(events, Ev(pc, "", 0)))
      ]_vars

\* At verbosity warn a warn_log record and then an error were written.
C23_Witness ==
    /\ verbosity = "warn"
    /\ pc = "idle"
    /\ events = <<Ev("warn_log", "", 0), Ev("error", "", 0)>>

\* C24: in every step the conversation history and the executed actions of
\* the session are extended, never shortened or rewritten; a restart of the
\* process, which restores the session from the store, is such a step.
C24_AppendOnly ==
    [][ /\ IsPrefix(session.conversation_history, session'.conversation_history)
        /\ IsPrefix(session.executed_actions, session'.executed_actions)
      ]_vars

\* A resumed run has executed an action after the one of the first run, with
\* the query of the first run still in the history.
C24_Witness ==
    /\ run = 2
    /\ Len(session.executed_actions) = 2
    /\ Len(calls) = 1
    /\ Len(session.conversation_history) >= 1

\* The executor calls a proxy in this step and the auditor finds the action
\* unsafe.
UnsafeInvocation ==
    /\ pc = "executor"
    /\ Len(calls') = Len(calls) + 1
    /\ ~calls'[Len(calls')].safe

\* C25: an invocation the auditor finds unsafe sets deviation_occurred,
\* emits unsafe and then deny_current_action and nothing else, and returns
\* to the executor: the tool is not called, no approval is requested or read,
\* and executed_actions, the history and the cursor are as before.
C25_UnsafeInvocation ==
    [][ UnsafeInvocation =>
          /\ session'.deviation_occurred
          /\ session' = [session EXCEPT !.deviation_occurred = TRUE]
          /\ events' = events \o <<Ev("unsafe", "", Len(calls')),
                                   Ev("deny_current_action", "", Len(calls'))>>
          /\ pc' = "executor"
          /\ hook' = NoHook
          /\ session'.executed_actions = session.executed_actions
          /\ session'.next_expected_recipe_step_idx = step_idx
          /\ session'.next_expected_subcommand_idx = subcmd_idx
      ]_vars

\* The first call of the executor after execute_recipe was found unsafe: the
\* deviation flag is now set and the proxy has returned.
C25_Witness ==
    /\ cmd = "execute_recipe"
    /\ pc = "executor"
    /\ Len(calls) = 1
    /\ ~calls[1].safe
    /\ session.deviation_occurred
    /\ session.executed_actions = <<>>
    /\ events # <<>>
    /\ LastEvent = Ev("deny_current_action", "", 1)

\* The executor calls a proxy in this step and the auditor finds the action
\* safe.
SafeInvocation ==
    /\ pc = "executor"
    /\ Len(calls') = Len(calls) + 1
    /\ calls'[Len(calls')].safe

\* The call made in this step is the subcommand the cursor points at.
CallIsPlanned ==
    LET call == calls'[Len(calls')]
        step == get_expected_recipe_step(session)
        sub == get_expected_subcommand(session)
    IN /\ step # None
       /\ sub # None
       /\ call.tool = step[1].tool
       /\ strip(call.action) = sub[1]

\* C26: a safe invocation goes to its tool without an approval request only
\* if it is the planned one and deviation_occurred was false when it
\* started; with deviation_occurred true it asks for approval, in every mode,
\* and it is past its approval only with a request_approval of its own.
C26_AutoApproveOnlyPlannedUndeviated ==
    [][ /\ SafeInvocation /\ pc' = "exec" =>
              CallIsPlanned /\ ~session.deviation_occurred
        /\ SafeInvocation /\ session.deviation_occurred =>
              pc' = "ask" /\ hook'.should_request_approval
        /\ pc' = "exec" /\ pc # "executor" =>
              \E i \in 1..Len(events') :
                  /\ events'[i].type = "request_approval"
                  /\ events'[i].inv = Len(calls')
      ]_vars

\* The planned second step of a pre-approved recipe is called after a
\* deviation and has to ask for approval.
C26_Witness ==
    /\ session.recipe_preapproved
    /\ Len(calls) = 2
    /\ hook.is_current_action_expected_by_recipe
    /\ session.deviation_occurred
    /\ pc = "ask"

\* C27: a safe invocation made when there is no expected recipe step sets
\* deviation_occurred and asks for approval, pre-approved recipe or not.
C27_NoExpectedStepIsDeviation ==
    [][ SafeInvocation /\ get_expected_recipe_step(session) = None =>
          /\ pc' = "ask"
          /\ session'.deviation_occurred
      ]_vars

\* The tool of the current invocation raises in this step.
ToolRaises ==
    /\ pc = "exec"
    /\ Len(events') > Len(events)
    /\ events'[Len(events) + 1].type = "error"

\* C28: when the tool raises, the invocation emits error and a failure
\* result, records the action with an ERROR result, then sets
\* deviation_occurred and returns to the executor, which goes on; the cursor
\* does not move in either step.
C28_ToolRaises ==
    [][ /\ ToolRaises =>
            /\ events' = events \o <<Ev("error", "", Len(calls)),
                                     Ev("result", "failure", Len(calls))>>
            /\ session'.executed_actions =
                   Append(session.executed_actions,
                          [tool |-> calls[Len(calls)].tool,
                           action |-> calls[Len(calls)].action,
                           result |-> "ERROR"])
            /\ session'.next_expected_recipe_step_idx = step_idx
            /\ session'.next_expected_subcommand_idx = subcmd_idx
            /\ pc' = "raise_dev"
        /\ pc = "raise_dev" =>
            /\ session'.deviation_occurred
            /\ session' = [session EXCEPT !.deviation_occurred = TRUE]
            /\ events' = events
            /\ pc' = "executor"
      ]_vars

\* The first tool call of a run raised and the second, audited safe, ran.
C28_Witness ==
    /\ Len(calls) = 2
    /\ calls[2].safe
    /\ Len(session.executed_actions) = 2
    /\ session.executed_actions[1].result = "ERROR"
    /\ session.executed_actions[2].result = "ok"
    /\ session.deviation_occurred
    /\ pc = "executor"
    /\ LastEvent = Ev("result", "success", 2)

\* The places in the output where a pending approval failed on stdin: an
\* error of a proxy invocation with deny_current_action right after it.
ApprovalFailures ==
    {i \in 1..(Len(events) - 1) :
        /\ events[i].type = "error"
        /\ events[i].inv > 0
        /\ events[i + 1] = Ev("deny_current_action", "", events[i].inv)}

\* C29: a failed read of the approval reply (EOF, or a line that is not
\* JSON) ends the run: no result follows for the pending action, and no
\* later invocation asks for approval or gets as far as its tool.
C29_IpcFailureEndsRun ==
    \A i \in ApprovalFailures :
        /\ \A j \in (i + 1)..Len(events) :
              events[j].type \notin {"request_approval", "result"}
        /\ pc \notin {"ask", "await_approval", "exec", "inc_sub", "inc_step",
                      "raise_dev"}

\* The record written last in this step, if the step wrote one.
Emits(type) ==
    /\ Len(events') > Len(events)
    /\ events'[Len(events')].type = type

\* C30: the plan event is written only once the plan is in the session and
\* in the store, with no unsafe verdict before it; an unsafe verdict on the
\* initial-plan path is the last record of the process, which exits with
\* nothing stored and without plan or final_summary.
C30_PlanAfterAuditAndStore ==
    [][ /\ Emits("plan") =>
            /\ session'.current_recipe # None
            /\ session'.original_query # None
            /\ check_session_exists(disk')
            /\ load_session(disk') = session'
            /\ \A i \in 1..Len(events) : events[i].type # "unsafe"
        /\ pc = "planning" /\ Emits("unsafe") =>
            /\ pc' = "exited"
            /\ disk' = disk
            /\ ~check_session_exists(disk')
            /\ \A i \in 1..Len(events') :
                  events'[i].type \notin {"plan", "final_summary"}
        /\ pc \in {"planning", "store_plan"} => pc' # "await_cmd"
      ]_vars

\* The first process exited with nothing stored (an unsafe plan, or none);
\* the second one, on the initial-plan path again, stored its plan and
\* emitted it.
C30_Witness ==
    /\ run = 2
    /\ pc = "await_cmd"
    /\ events = <<Ev("plan", "", 0)>>
    /\ check_session_exists(disk)
    /\ session.current_recipe # None

\* C31: a process takes the resume path exactly when the store holds the
\* session in either form, and on that path the step to the command loop
\* changes neither the session nor the store and emits nothing; otherwise
\* it takes the initial-plan path (the planner, or the error for a missing
\* query).
C31_ResumeIffStored ==
    [][ pc = "start" =>
          LET stored == disk.json_file # None \/ disk.h5 # None IN
          /\ stored <=> pc' = "await_cmd"
          /\ stored => /\ session' = session
                       /\ disk' = disk
                       /\ events' = events
          /\ ~stored => pc' \in {"planning", "exited"}
      ]_vars

\* C34: the constructor restores the session from the archive when the
\* archive holds it, from the JSON file only when the archive does not, and
\* leaves every field at its blank default when neither holds it.
C34_RestoreOrder ==
    [][ pc = "construct" =>
          /\ \A s \in StoredSessions :
                /\ disk.h5 = Some(h5_group(s)) => session' = s
                /\ (/\ disk.h5 = None
                    /\ disk.json_file = Some(json_dumps(payload(s)))) => session' = s
          /\ disk = NoStore =>
                /\ session'.conversation_history = <<>>
                /\ session'.executed_actions = <<>>
                /\ session'.current_recipe = None
                /\ session'.fallback_action = None
                /\ session'.original_query = None
                /\ ~session'.is_single_step_plan
                /\ ~session'.recipe_preapproved
                /\ ~session'.deviation_occurred
                /\ session'.next_expected_recipe_step_idx = 0
                /\ session'.next_expected_subcommand_idx = 0
      ]_vars

\* The store held both forms, written by different saves, and the
\* constructed session is the archive's.
C34_Witness ==
    /\ pc = "start"
    /\ disk.h5 # None
    /\ disk.json_file # None
    /\ session.deviation_occurred
    /\ disk.h5[1] = h5_group(session)
    /\ ~json_loads(disk.json_file[1]).deviation_occurred

\* The number of final_summary records in a sequence of records.
FinalSummaries(evs) ==
    Cardinality({i \in 1..Len(evs) : evs[i].type = "final_summary"})

\* C32: every line the command loop reads has one of five outcomes.  The
\* loop stops with the one final_summary of the run, status cancelled
\* (deny_current_action); it stops with an error (unknown type, or a line
\* that is not JSON); it stops with nothing emitted (EOF); it goes on with
\* nothing emitted and session and store as they were
\* (user_approval_response); or it hands an execute command to its handler.
\* A stopped loop reads nothing more.
C32_CommandLoop ==
    [][ pc = "await_cmd" =>
          /\ session' = session
          /\ disk' = disk
          /\ \/ /\ pc' = "exited"
                /\ events' = Append(events, Ev("final_summary", "cancelled", 0))
                /\ FinalSummaries(events') = 1
             \/ /\ pc' = "exited"
                /\ events' = Append(events, Ev("error", "", 0))
             \/ /\ pc' = "exited"
                /\ events' = events
             \/ /\ pc' = "await_cmd"
                /\ events' = events
             \/ /\ pc' = "h1"
                /\ cmd' \in ExecuteCommands
                /\ events' = events
      ]_vars

\* A resumed process read deny_current_action as its command: it has
\* emitted the cancelled final_summary and nothing else, and has exited.
C32_Witness ==
    /\ run = 2
    /\ pc = "exited"
    /\ cmd = "none"
    /\ events = <<Ev("final_summary", "cancelled", 0)>>

\* The auditor's reply is a recognised verdict whose safe value is true: a
\* JSON object with the three keys and the value true, or a markdown SAFE
\* line whose value is the word true (in any case).
SaysSafe(out) ==
    \/ /\ out.shape = "json"
       /\ out.keys
       /\ out.safe \in {<<"T", "r", "u", "e">>, <<"t", "r", "u", "e">>}
    \/ /\ out.shape = "markdown"
       /\ lower(out.safe) = <<"t", "r", "u", "e">>

\* C33: an invocation gets past the audit gate (to its approval request or
\* its tool) only if the auditor's reply says safe = true; when the auditor
\* raised, replied in no recognised shape or with another safe value, the
\* invocation emits unsafe and returns without executing.
C33_AuditFailClosed ==
    [][ pc = "executor" /\ Len(calls') = Len(calls) + 1
            /\ ~SaysSafe(auditor_output[1]) =>
          /\ ~calls'[Len(calls')].safe
          /\ pc' = "executor"
          /\ events' = events \o <<Ev("unsafe", "", Len(calls')),
                                   Ev("deny_current_action", "", Len(calls'))>>
          /\ session'.executed_actions = session.executed_actions
      ]_vars

\* C35: the output is spilled exactly when it is a non-empty string longer
\* than the threshold; a spilled output whose file was written is recorded
\* and reported as the sentinel, and one whose write failed as the full
\* output, the invocation completing with its result event.
C35_SpillExactlyWhenLonger ==
    [][ pc = "returned" =>
          LET longer == /\ tool_res.kind = "str"
                        /\ tool_res.text # <<>>
                        /\ Len(tool_res.text) > output_threshold_bytes
              last == session'.executed_actions[Len(session'.executed_actions)]
              out == events'[Len(events')]
          IN
          /\ longer /\ Len(spill_writes') > Len(spill_writes) =>
                /\ last.result.kind = "sentinel"
                /\ out.type = "result"
                /\ out.output = Some(last.result)
          /\ ~longer =>
                /\ spill_writes' = spill_writes
                /\ last.result = full_output(tool_res)
                /\ out.output = Some(full_output(tool_res))
          /\ longer =>
                \/ Len(spill_writes') > Len(spill_writes)
                \/ /\ Len(events') >= 2
                   /\ events'[Len(events') - 1].type = "error"
      ]_vars

\* C40: no file name is written twice in the spill directory of a session:
\* each spill is followed by an append to executed_actions, on which the
\* next name is built.
C40_SpillNamesUnique ==
    /\ \A i, j \in 1..Len(spill_writes) :
          spill_writes[i] = spill_writes[j] => i = j
    /\ \A i \in 1..Len(spill_writes) :
          spill_writes[i][1] <= Len(session.executed_actions)

\* The same tool spilled its output twice, in the first run and in the
\* resumed one.
C40_Witness ==
    /\ run = 2
    /\ Len(calls) = 1
    /\ Len(spill_writes) = 2
    /\ spill_writes[1][2] = spill_writes[2][2]
    /\ pc = "executor"

\* C36: an invocation that is audited safe and is the subcommand the cursor
\* points at does not change deviation_occurred, at the gate or in any
\* later step of it, unless its tool raises.
C36_PlannedCallKeepsDeviation ==
    [][ /\ SafeInvocation /\ CallIsPlanned =>
              session'.deviation_occurred = session.deviation_occurred
        /\ (/\ pc \in {"ask", "await_approval", "exec", "inc_sub", "inc_step"}
            /\ hook.is_current_action_expected_by_recipe
            /\ pc' # "raise_dev") =>
              session'.deviation_occurred = session.deviation_occurred
      ]_vars

\* The last record the run wrote to stdout is a final_summary with `status`.
EndsWith(status) ==
    /\ events # <<>>
    /\ events[Len(events)] = Ev("final_summary", status, 0)

\* C37: every execute command is followed by exactly one final_summary once
\* the executor call is over, with status success if executor_agent.run
\* returned and cancelled if it raised; no run emits a second final_summary;
\* and after the final_summary the run reads no command and emits nothing.
C37_OneFinalSummary ==
    /\ (pc = "h1") ~> (pc = "exited" /\ FinalSummaries(events) = 1)
    /\ [](FinalSummaries(events) <= 1)
    /\ [](pc = "exited" /\ finale \in Finales => EndsWith("success"))
    /\ [](pc = "exited" /\ finale = "raised" => EndsWith("cancelled"))
    /\ [][FinalSummaries(events) >= 1 =>
            \/ pc' = pc /\ events' = events /\ cmd' = cmd
            \/ run' = run + 1]_vars

\* C37, the parts that hold whatever the executor hands back: one
\* final_summary follows every execute command, it is the only one of its
\* run and the last record of it, and its status is success only if
\* executor_agent.run returned.
C37_OneFinalSummaryAnyStatus ==
    /\ (pc = "h1") ~> (pc = "exited" /\ FinalSummaries(events) = 1)
    /\ [](FinalSummaries(events) <= 1)
    /\ [](pc = "exited" /\ finale # NotReturned =>
             \/ EndsWith("success") /\ finale \in Finales
             \/ EndsWith("cancelled"))
    /\ [][FinalSummaries(events) >= 1 =>
            \/ pc' = pc /\ events' = events /\ cmd' = cmd
            \/ run' = run + 1]_vars

\* C38: the line read while an approval is pending goes to the proxy
\* whatever its type: no handler of the command loop is entered, no
\* final_summary is written and the session is left alone; the tool call
\* goes on exactly if the line is a JSON object with approved = true; and a
\* JSON object without that gets the cancelled result and
\* deny_current_action.  The command loop takes lines only while no
\* approval is pending.
C38_PendingApprovalTakesLine ==
    [][ /\ (pc = "await_approval" /\ stdin'.read # stdin.read) =>
              LET l == stdin.lines[stdin'.read] IN
              /\ stdin'.read = stdin.read + 1
              /\ cmd' = cmd
              /\ session' = session
              /\ disk' = disk
              /\ FinalSummaries(events') = FinalSummaries(events)
              /\ pc' \in {"exec", "executor"}
              /\ pc' = "exec" <=> (l.type \in LineTypes /\ l.approved = "true")
              /\ (l.type \in LineTypes /\ l.approved # "true") =>
                    events' = events \o <<Ev("result", "cancelled", Len(calls)),
                                         Ev("deny_current_action", "", Len(calls))>>
        /\ (cmd' # cmd \/ FinalSummaries(events') > FinalSummaries(events)) =>
              pc \in {"await_cmd", "executor"}
      ]_vars

\* The front end sent deny_current_action while the second invocation of a
\* pre-approved recipe waited for its approval: the proxy took the line,
\* wrote the cancelled result and deny_current_action, and the executor
\* runs on.
C38_Witness ==
    /\ pc = "executor"
    /\ cmd = "execute_recipe"
    /\ stdin.read = 2
    /\ stdin.lines[2] = Line("deny_current_action", "absent")
    /\ Len(events) >= 2
    /\ events[Len(events) - 1] = Ev("result", "cancelled", Len(calls))
    /\ events[Len(events)] = Ev("deny_current_action", "", Len(calls))

\* The front end sent execute_recipe with approved = true while an approval
\* was pending: the tool call goes on.
C38_WitnessApproved ==
    /\ pc = "exec"
    /\ stdin.read = 2
    /\ stdin.lines[2] = Line("execute_recipe", "true")

\* The session a process would load from the store now.
Stored == load_session(disk)

\* The store holds the request of the pending approval as the last entry of
\* conversation_history.
RequestIsStored ==
    /\ Stored.conversation_history # <<>>
    /\ Stored.conversation_history[Len(Stored.conversation_history)] =
          [role |-> "assistant", content |-> <<hook.name, hook.action_str>>]

\* C39: while request_approval is out and the reply is awaited, the stored
\* session has deviation_occurred true and the entry '<tool> -> <action>' at
\* the end of conversation_history, and the reply (a denial, the end of
\* input) does not change the store; an invocation that is auto-approved
\* appends nothing to conversation_history.
C39_StoredBeforeRequest ==
    /\ [](pc = "await_approval" => Stored.deviation_occurred /\ RequestIsStored)
    /\ [][pc = "await_approval" => disk' = disk]_vars
    /\ [][(pc \in {"executor", "await_approval", "exec", "inc_sub", "inc_step",
                    "raise_dev"}) =>
            session'.conversation_history = session.conversation_history]_vars

\* C39 without the deviation flag: the entry is stored when the reply is
\* awaited, the reply does not change the store, and only the request of an
\* approval appends to conversation_history during an invocation.
C39_StoredRequestOnly ==
    /\ [](pc = "await_approval" => RequestIsStored)
    /\ [](pc = "await_approval" /\ session.deviation_occurred =>
             Stored.deviation_occurred)
    /\ [][pc = "await_approval" => disk' = disk]_vars
    /\ [][(pc \in {"executor", "await_approval", "exec", "inc_sub", "inc_step",
                    "raise_dev"}) =>
            session'.conversation_history = session.conversation_history]_vars

====
